---- MODULE Spec2Model ----
(***************************************************************************)
(* Asynchronous task submit/poll protocol, response normalizer and the     *)
(* key-hiding proxy routes of the agent UI template.                       *)
(*                                                                         *)
(*   SpecNorm   normalizeResponse applied to a bounded universe of parsed  *)
(*              payloads (route (4).ts).                                   *)
(***************************************************************************)
EXTENDS Integers, Sequences, FiniteSets, TLC

(***************************************************************************)
(* Bounds of the model.                                                    *)
(***************************************************************************)
\* numbers that occur in payloads are 0..MaxNum
MaxNum == 2
\* a payload is wrapped in at most MaxWrap nested {response: ...} objects
MaxWrap == 2
\* a request takes 0..MaxLate steps of LateMs milliseconds
MaxLate == 1
LateMs == 150000
\* generateUUID() draws one of MaxUuid values
MaxUuid == 1

(***************************************************************************)
(* JavaScript values.  Every value is a record tagged with its kind; an    *)
(* object is a function from its own keys to values, and a key may be      *)
(* present with the value undefined.                                       *)
(***************************************************************************)
Undef == [t |-> "undefined"]
Null == [t |-> "null"]
Bool(b) == [t |-> "boolean", b |-> b]
Num(n) == [t |-> "number", n |-> n]
Str(s) == [t |-> "string", s |-> s]
Obj(f) == [t |-> "object", o |-> f]
Arr(a) == [t |-> "array", a |-> a]
NoFields == [k \in {} |-> Undef]
EmptyObj == Obj(NoFields)

\* typeof v
TypeOf(v) ==
  IF v.t \in {"null", "array"} THEN "object" ELSE v.t

\* !v
Falsy(v) ==
  \/ v.t \in {"undefined", "null"}
  \/ v.t = "boolean" /\ ~v.b
  \/ v.t = "number" /\ v.n = 0
  \/ v.t = "string" /\ v.s = ""

\* k in v, for an object v
Has(v, k) == v.t = "object" /\ k \in DOMAIN v.o

\* v.k : undefined when the key is absent
Get(v, k) == IF Has(v, k) THEN v.o[k] ELSE Undef

\* a ?? b
Coalesce(a, b) == IF a.t \in {"undefined", "null"} THEN b ELSE a

\* a || b
OrElse(a, b) == IF Falsy(a) THEN b ELSE a

\* String(v) of a scalar
StringOf(v) ==
  CASE v.t = "number" -> ToString(v.n)
    [] v.t = "boolean" -> (IF v.b THEN "true" ELSE "false")
    [] v.t = "string" -> v.s
    [] v.t = "null" -> "null"
    [] OTHER -> "undefined"

\* const { a, b, ...rest } = v : v without the keys in ks
Without(v, ks) == Obj([k \in (DOMAIN v.o) \ ks |-> v.o[k]])

(***************************************************************************)
(* normalizeResponse                                                       *)
(***************************************************************************)
\* (mutant) the message that looks at result before the message field
ResultMessageResultFirst(parsed) ==
  LET r == Get(parsed, "result")
      inner == IF ~Falsy(r) /\ TypeOf(r) = "object"
               THEN Coalesce(Get(r, "text"),
                    Coalesce(Get(r, "message"),
                    Coalesce(Get(r, "response"),
                    Coalesce(Get(r, "answer"),
                    Coalesce(Get(r, "summary"), Get(r, "content"))))))
               ELSE Null
  IN Coalesce(IF TypeOf(r) = "string" THEN r ELSE Null,
     Coalesce(Get(parsed, "message"), inner))

\* the message derived from an object that has result but no status
ResultMessage(parsed) ==
  LET r == Get(parsed, "result")
      inner == IF ~Falsy(r) /\ TypeOf(r) = "object"
               THEN Coalesce(Get(r, "text"),
                    Coalesce(Get(r, "message"),
                    Coalesce(Get(r, "response"),
                    Coalesce(Get(r, "answer"),
                    Coalesce(Get(r, "summary"), Get(r, "content"))))))
               ELSE Null
  IN Coalesce(Get(parsed, "message"),
     Coalesce(IF TypeOf(r) = "string" THEN r ELSE Null, inner))

\* (mutant) anything but 'success' is an error
StatusOfStrict(s) == IF s = Str("success") THEN Str("success") ELSE Str("error")

\* status === 'error' ? 'error' : 'success'
StatusOf(s) == IF s = Str("error") THEN Str("error") ELSE Str("success")

\* { status, result, message }
Normalized3(st, res, msg) ==
  Obj(("status" :> st) @@ ("result" :> res) @@ ("message" :> msg))

\* { status, result, message, metadata }
Normalized4(st, res, msg, meta) ==
  Obj(("status" :> st) @@ ("result" :> res) @@ ("message" :> msg)
      @@ ("metadata" :> meta))

\* !parsed
EmptyCase == Normalized3(Str("error"), EmptyObj, Str("Empty response from agent"))

\* (mutant) the string case that returns the bare string for its result
StringCaseBare(parsed) == Normalized3(Str("success"), parsed, parsed)

\* typeof parsed === 'string'
StringCase(parsed) == Normalized3(Str("success"), Obj("text" :> parsed), parsed)

\* (mutant) the scalar case that forgets String()
ScalarCaseRaw(parsed) == Normalized3(Str("success"), Obj("value" :> parsed), parsed)

\* typeof parsed !== 'object'
ScalarCase(parsed) ==
  Normalized3(Str("success"), Obj("value" :> parsed), Str(StringOf(parsed)))

\* (mutant) the pass-through that takes the whole object for its result
PassThroughWhole(parsed) ==
  Normalized4(StatusOf(Get(parsed, "status")), OrElse(parsed, EmptyObj),
              Get(parsed, "message"), Get(parsed, "metadata"))

\* 'status' in parsed && 'result' in parsed
PassThrough(parsed) ==
  Normalized4(StatusOf(Get(parsed, "status")), OrElse(Get(parsed, "result"), EmptyObj),
              Get(parsed, "message"), Get(parsed, "metadata"))

\* 'status' in parsed
StatusCaseDropping(parsed) ==
  Normalized4(StatusOf(Get(parsed, "status")),
              Without(parsed, {"status", "message", "metadata", "response"}),
              Get(parsed, "message"), Get(parsed, "metadata"))

StatusCase(parsed) ==
  Normalized4(StatusOf(Get(parsed, "status")),
              Without(parsed, {"status", "message", "metadata"}),
              Get(parsed, "message"), Get(parsed, "metadata"))

\* 'result' in parsed
ResultCase(parsed) ==
  LET r == Get(parsed, "result")
      msg == ResultMessage(parsed)
  IN Normalized4(Str("success"),
                 IF TypeOf(r) = "string" THEN Obj("text" :> r) ELSE OrElse(r, EmptyObj),
                 IF TypeOf(msg) = "string" THEN msg ELSE Undef,
                 Get(parsed, "metadata"))

\* 'message' in parsed && typeof parsed.message === 'string'
MessageCase(parsed) ==
  Normalized3(Str("success"), Obj("text" :> Get(parsed, "message")),
              Get(parsed, "message"))

\* the last return of normalizeResponse
Fallback(parsed) == Normalized4(Str("success"), parsed, Undef, Undef)

RECURSIVE normalizeResponse(_)
normalizeResponse(parsed) ==
  IF Falsy(parsed) THEN EmptyCase
  ELSE IF TypeOf(parsed) = "string" THEN StringCase(parsed)
  ELSE IF TypeOf(parsed) # "object" THEN ScalarCase(parsed)
  ELSE IF Has(parsed, "status") /\ Has(parsed, "result") THEN PassThrough(parsed)
  ELSE IF Has(parsed, "status") THEN StatusCase(parsed)
  ELSE IF Has(parsed, "result") THEN ResultCase(parsed)
  ELSE IF Has(parsed, "message") /\ TypeOf(Get(parsed, "message")) = "string"
  THEN MessageCase(parsed)
  ELSE IF Has(parsed, "response") THEN normalizeResponse(Get(parsed, "response"))
  ELSE Fallback(parsed)

(***************************************************************************)
(* The payloads the normalizer is applied to.                              *)
(***************************************************************************)
Scalars ==
  {Undef, Null, Bool(TRUE), Bool(FALSE), Str(""), Str("error"), Str("Hello back")}
    \cup {Num(n) : n \in 0..MaxNum}

\* the objects over the keys ks, the value of a key k drawn from vals[k]
RECURSIVE FieldsOver(_, _)
FieldsOver(ks, vals) ==
  IF ks = {} THEN {NoFields}
  ELSE LET k == CHOOSE x \in ks : TRUE
           rest == FieldsOver(ks \ {k}, vals)
       IN rest \cup {(k :> v) @@ f : f \in rest, v \in vals[k]}

ObjectsOver(ks, vals) == {Obj(f) : f \in FieldsOver(ks, vals)}

\* what an agent puts inside result / response
InnerVals ==
  [k \in {"text", "answer", "status"} |->
     CASE k = "text" -> {Str("Hello back")}
       [] k = "answer" -> {Str("42")}
       [] OTHER -> {Str("error")}]

InnerObjects == ObjectsOver(DOMAIN InnerVals, InnerVals)

TopVals ==
  [k \in {"status", "result", "message", "metadata", "response"} |->
     CASE k = "status" -> {Str("error"), Str("completed"), Null}
       [] k = "result" -> {Null, Str("Hello back"), Num(0), EmptyObj,
                           Obj("answer" :> Str("42")),
                           Obj(("text" :> Str("Hello back")) @@ ("answer" :> Str("42"))),
                           Obj(("text" :> Null) @@ ("answer" :> Str("42"))),
                           Obj(("text" :> Num(0)) @@ ("answer" :> Str("42")))}
       [] k = "message" -> {Str("note"), Num(1)}
       [] k = "metadata" -> {Obj("agent_name" :> Str("A1"))}
       [] OTHER -> {Null, Str("Hello back"), Obj("status" :> Str("error")),
                    Obj("result" :> Obj("answer" :> Str("42")))}]

TopObjects == ObjectsOver(DOMAIN TopVals, TopVals)

RECURSIVE Wrapped(_, _)
Wrapped(vs, d) ==
  IF d = 0 THEN vs
  ELSE vs \cup {Obj("response" :> v) : v \in Wrapped(vs, d - 1)}

Candidates == Wrapped(Scalars \cup InnerObjects \cup TopObjects, MaxWrap)

(***************************************************************************)
(* JSON text.  JSON.stringify writes the keys of an object in KeyOrder and *)
(* leaves out the keys whose value is undefined; JSON.parse is its inverse *)
(* on the documents that travel in this system and throws on other text.   *)
(***************************************************************************)
KeyOrder ==
  <<"success", "task_id", "status", "response", "result", "message", "metadata",
    "module_outputs", "error", "detail", "details", "data", "text", "answer",
    "value", "agent_name", "artifact_files", "id", "agent_id", "user_id",
    "session_id", "cron_expression", "timezone", "max_retries", "retry_delay",
    "is_active", "schedules", "total", "scheduleId", "agentId", "limit",
    "documents", "documentNames", "file", "name", "type", "fileName", "fileType", "documentCount", "deletedCount",
    "document_count", "ragId", "rag_id", "url", "timestamp", "raw_response">>

\* the one text of the model that holds quotes, and its escaped form
AnswerText == "{\"result\":{\"answer\":\"42\"}}"
Escaped(s) ==
  IF s = AnswerText THEN "{\\\"result\\\":{\\\"answer\\\":\\\"42\\\"}}" ELSE s

RECURSIVE Stringify(_), FieldsText(_, _, _), ItemsText(_, _)
Stringify(v) ==
  CASE v.t = "string" -> "\"" \o Escaped(v.s) \o "\""
    [] v.t = "array" -> "[" \o ItemsText(v.a, 1) \o "]"
    [] v.t = "number" -> ToString(v.n)
    [] v.t = "boolean" -> (IF v.b THEN "true" ELSE "false")
    [] v.t = "object" -> "{" \o FieldsText(v, 1, TRUE) \o "}"
    [] OTHER -> "null"

FieldsText(v, i, first) ==
  IF i > Len(KeyOrder) THEN ""
  ELSE LET k == KeyOrder[i]
       IN IF Has(v, k) /\ v.o[k] # Undef
          THEN (IF first THEN "" ELSE ",") \o "\"" \o k \o "\":"
                 \o Stringify(v.o[k]) \o FieldsText(v, i + 1, FALSE)
          ELSE FieldsText(v, i + 1, first)

ItemsText(a, i) ==
  IF i > Len(a) THEN ""
  ELSE (IF i = 1 THEN "" ELSE ",") \o Stringify(a[i]) \o ItemsText(a, i + 1)

\* what the receiver of JSON.stringify(v) reads back
RECURSIVE Serialize(_)
Serialize(v) ==
  IF v.t = "object"
  THEN Obj([k \in {x \in DOMAIN v.o : v.o[x] # Undef} |-> Serialize(v.o[k])])
  ELSE IF v.t = "array"
  THEN Arr([i \in DOMAIN v.a |-> IF v.a[i] = Undef THEN Null ELSE Serialize(v.a[i])])
  ELSE v

\* the result payloads a completed task carries in its response field
Payloads ==
  { Str("Hello back"),
    Str(AnswerText),
    Obj(("status" :> Str("error")) @@ ("message" :> Str("agent refused"))),
    Obj(("response" :> Obj("result" :> Obj("answer" :> Str("42")))) @@
        ("module_outputs" :> Obj("artifact_files" :> Str("report.pdf")))) }

\* the error texts a failed task carries (undefined: none)
TaskErrors == {Str("model overloaded"), Undef}

\* the task states of the inference backend
Processing == Obj("status" :> Str("processing"))
Failed(e) == Serialize(Obj(("status" :> Str("failed")) @@ ("error" :> e)))
Completed(p) == Obj(("status" :> Str("completed")) @@ ("response" :> p))
TaskStates ==
  {Processing} \cup {Failed(e) : e \in TaskErrors} \cup {Completed(p) : p \in Payloads}

\* the task handles the backend issues
TaskIds == {Str("T1")}

\* JSON bodies of the backend's replies to a submit and of its error replies
SubmitReplies == {Obj("task_id" :> t) : t \in TaskIds} \cup {EmptyObj}
ErrorDocs == {Obj("detail" :> Str("Invalid API key")), Obj("message" :> Str("Task not found"))}

\* bodies that are not JSON
ProseTexts == {"Bad Gateway"}

\* the payload of a submit, as a backend that echoes its input sends it back
AgentEcho ==
  Obj(("message" :> Str("hi")) @@ ("agent_id" :> Str("A1"))
      @@ ("user_id" :> Str("U1")) @@ ("session_id" :> Str("S1")))

JsonDocs ==
  TaskStates \cup SubmitReplies \cup ErrorDocs \cup Payloads \cup {AgentEcho}
    \cup {Obj("task_id" :> Str("T2"))}
    \cup UNION {{p.o[k] : k \in DOMAIN p.o} : p \in {q \in Payloads : q.t = "object"}}
    \cup {Obj("result" :> Obj("answer" :> Str("42")))}

JsonTable == [v \in JsonDocs |-> Stringify(v)]

IsJson(text) == \E v \in JsonDocs : JsonTable[v] = text

\* JSON.parse(text), defined when IsJson(text); it throws otherwise
ParseJson(text) == CHOOSE v \in JsonDocs : JsonTable[v] = text

\* parseLLMJson: strict parse of a string, the failure record for text that
\* holds no JSON, and any other value as it is
ParseFailure == Obj(("success" :> Bool(FALSE)) @@ ("data" :> Null))
parseLLMJson(raw) ==
  IF TypeOf(raw) = "string"
  THEN IF IsJson(raw.s) THEN ParseJson(raw.s) ELSE ParseFailure
  ELSE raw

(***************************************************************************)
(* HTTP.                                                                   *)
(***************************************************************************)
NotJson == [t |-> "notjson"]

\* NextResponse.json(value, { status })
JsonResponse(value, status) ==
  [status |-> status, ctype |-> "application/json", redirected |-> FALSE,
   body |-> Serialize(value)]

\* what the framework answers when a route handler's promise rejects
UnhandledRejection ==
  [status |-> 500, ctype |-> "text/plain", redirected |-> FALSE, body |-> NotJson]

\* outcomes of the route's fetch to the inference backend
UpThrow == [kind |-> "throw"]
UpHttp(status, text) == [kind |-> "http", status |-> status, text |-> text]
UpOk(up) == up.status >= 200 /\ up.status <= 299

UpstreamSubmit ==
  {UpThrow, UpHttp(200, "Bad Gateway")}
    \cup {UpHttp(200, JsonTable[r]) : r \in SubmitReplies}
    \cup {UpHttp(st, tx) : st \in {401, 502},
                           tx \in {JsonTable[d] : d \in ErrorDocs} \cup ProseTexts}

UpstreamPoll(t) ==
  {UpThrow, UpHttp(200, "Bad Gateway"),
   UpHttp(404, JsonTable[Obj("message" :> Str("Task not found"))]),
   UpHttp(401, JsonTable[Obj("detail" :> Str("Invalid API key"))]),
   UpHttp(503, "Bad Gateway")}
    \cup (IF t \in TaskStates THEN {UpHttp(200, JsonTable[t])} ELSE {})

(***************************************************************************)
(* The agent route: POST /api/agent, submitTask, pollTask.                 *)
(***************************************************************************)
ErrorResponse(m) ==
  Obj(("status" :> Str("error")) @@ ("result" :> EmptyObj) @@ ("message" :> m))

ErrorResult(m) ==
  Obj(("success" :> Bool(FALSE)) @@ ("response" :> ErrorResponse(m)) @@ ("error" :> m))

\* generateUUID(), by the random draw u
generateUUID(u) == "uuid" \o ToString(u)

\* (mutant) the validation that forgets agent_id
SubmitValidMessageOnly(body) == ~Falsy(Get(body, "message"))

\* does submitTask reach its fetch to the backend
SubmitValid(body) == ~Falsy(Get(body, "message")) /\ ~Falsy(Get(body, "agent_id"))

submitTask(body, up, u1, u2) ==
  LET agent_id == Get(body, "agent_id")
      finalUserId == OrElse(Get(body, "user_id"), Str("user-" \o generateUUID(u1)))
      finalSessionId ==
        OrElse(Get(body, "session_id"), Str(StringOf(agent_id) \o "-" \o generateUUID(u2)))
      fallback == Str("Task submit failed with status " \o ToString(up.status))
      errorData == IF IsJson(up.text) THEN ParseJson(up.text)
                   ELSE parseLLMJson(Str(up.text))
      errorMsg ==
        IF IsJson(up.text)
        THEN OrElse(Get(errorData, "detail"),
             OrElse(Get(errorData, "error"), OrElse(Get(errorData, "message"), fallback)))
        ELSE OrElse(Get(errorData, "error"), OrElse(Get(errorData, "message"), fallback))
  IN IF ~SubmitValid(body)
     THEN JsonResponse(ErrorResult(Str("message and agent_id are required")), 400)
     ELSE IF up.kind = "throw" THEN UnhandledRejection
     ELSE IF ~UpOk(up)
     THEN JsonResponse(Obj(("success" :> Bool(FALSE))
                           @@ ("response" :> ErrorResponse(errorMsg))
                           @@ ("error" :> errorMsg)
                           @@ ("raw_response" :> Str(up.text))), up.status)
     ELSE IF ~IsJson(up.text) THEN UnhandledRejection
     ELSE JsonResponse(Obj(("task_id" :> Get(ParseJson(up.text), "task_id"))
                           @@ ("agent_id" :> agent_id)
                           @@ ("user_id" :> finalUserId)
                           @@ ("session_id" :> finalSessionId)), 200)

\* the completed branch of pollTask: envelope, parseLLMJson, normalizeResponse
CompletedBody(task, ts) ==
  LET payload == Get(task, "response")
      rawText == IF payload = Undef THEN Undef ELSE Str(Stringify(payload))
      envelope == IF rawText = Undef THEN Undef ELSE ParseJson(rawText.s)
      isEnvelope == ~Falsy(envelope) /\ TypeOf(envelope) = "object"
                      /\ Has(envelope, "response")
      moduleOutputs == IF isEnvelope THEN Get(envelope, "module_outputs") ELSE Undef
      agentResponseRaw == IF isEnvelope THEN Get(envelope, "response") ELSE rawText
      parsed == parseLLMJson(agentResponseRaw)
      toNormalize ==
        IF ~Falsy(parsed) /\ TypeOf(parsed) = "object"
             /\ Get(parsed, "success") = Bool(FALSE) /\ Get(parsed, "data") = Null
        THEN agentResponseRaw ELSE parsed
  IN Obj(("success" :> Bool(TRUE))
         @@ ("status" :> Str("completed"))
         @@ ("response" :> normalizeResponse(toNormalize))
         @@ ("module_outputs" :> moduleOutputs)
         @@ ("timestamp" :> Str(ts))
         @@ ("raw_response" :> rawText))

pollTask(task_id, up, ts) ==
  IF up.kind = "throw" THEN UnhandledRejection
  ELSE IF ~UpOk(up)
  THEN JsonResponse(Obj(("success" :> Bool(FALSE))
                        @@ ("status" :> Str("failed"))
                        @@ ("error" :> (IF up.status = 404
                                        THEN Str("Task expired or not found")
                                        ELSE Str("Poll failed with status "
                                                   \o ToString(up.status))))
                        @@ ("raw_response" :> Str(up.text))), up.status)
  ELSE IF ~IsJson(up.text) THEN UnhandledRejection
  ELSE LET task == ParseJson(up.text)
           failure == OrElse(Get(task, "error"), Str("Agent task failed"))
       IN IF Get(task, "status") = Str("processing")
          THEN JsonResponse(Processing, 200)
          ELSE IF Get(task, "status") = Str("failed")
          THEN JsonResponse(Obj(("success" :> Bool(FALSE))
                                @@ ("status" :> Str("failed"))
                                @@ ("response" :> ErrorResponse(failure))
                                @@ ("error" :> failure)), 500)
          ELSE JsonResponse(CompletedBody(task, ts), 200)

\* POST /api/agent
POST(body, keySet, up, u1, u2, ts) ==
  IF ~keySet
  THEN JsonResponse(Obj(("success" :> Bool(FALSE))
                        @@ ("response" :> ErrorResponse(Str("LYZR_API_KEY not configured")))
                        @@ ("error" :> Str("LYZR_API_KEY not configured on server"))), 500)
  ELSE IF ~Falsy(Get(body, "task_id")) THEN pollTask(Get(body, "task_id"), up, ts)
  ELSE submitTask(body, up, u1, u2)

\* does POST send a request to the inference backend
ContactsBackend(body, keySet) ==
  keySet /\ (~Falsy(Get(body, "task_id")) \/ SubmitValid(body))

(***************************************************************************)
(* The browser side: fetchWrapper and the poll loop of callAIAgent.        *)
(***************************************************************************)
\* 5 * 60 * 1000: five minutes, in milliseconds
POLL_TIMEOUT_MS == 300000

Min(a, b) == IF a <= b THEN a ELSE b

\* the first attempt whose 300 * 1.5^attempt reaches the cap of 3000; the
\* power grows with the attempt, so every later one is capped too
CapAttempt ==
  CHOOSE k \in 0..12 :
    /\ 300 * 3^k >= 3000 * 2^k
    /\ \A j \in 0..(k - 1) : 300 * 3^j < 3000 * 2^j

\* (mutant) a backoff that doubles without a cap
DelayDoubling(k) == IF k >= 12 THEN 300 * 2^12 ELSE 300 * 2^k

\* Math.min(300 * Math.pow(1.5, attempt), 3000), in whole milliseconds
Delay(k) ==
  IF k >= CapAttempt THEN 3000 ELSE Min((300 * 3^k) \div 2^k, 3000)

\* what the browser's fetch('/api/agent') yields: the route's response, or a
\* failure between the browser and the route
Transports == {"ok", "netfail", "redirect", "html404", "badbody"}

Fetch(tr, routeResp) ==
  CASE tr = "ok" -> [kind |-> "response", r |-> routeResp]
    [] tr = "netfail" -> [kind |-> "throw"]
    [] tr = "redirect" ->
         [kind |-> "response",
          r |-> [status |-> 200, ctype |-> "text/html", redirected |-> TRUE,
                 body |-> NotJson]]
    [] tr = "html404" ->
         [kind |-> "response",
          r |-> [status |-> 404, ctype |-> "text/html", redirected |-> FALSE,
                 body |-> NotJson]]
    [] OTHER ->
         [kind |-> "response",
          r |-> [status |-> 200, ctype |-> "text/html", redirected |-> FALSE,
                 body |-> NotJson]]

NoRes == [status |-> 0]

\* (mutant) every 404 is taken for a missing page
fetchWrapperAny404(o) ==
  IF o.kind = "throw" THEN NoRes
  ELSE IF o.r.redirected THEN NoRes
  ELSE IF o.r.status = 404 THEN NoRes
  ELSE IF o.r.status >= 500 THEN NoRes
  ELSE o.r

\* fetchWrapper: the response it hands to its caller (NoRes: undefined).  Its
\* dialogs and its changes to window.location and document do not come back to
\* the caller and are not part of the state.
fetchWrapper(o) ==
  IF o.kind = "throw" THEN NoRes
  ELSE IF o.r.redirected THEN NoRes
  ELSE IF o.r.status = 404
  THEN IF o.r.ctype = "text/html" THEN NoRes ELSE o.r
  ELSE IF o.r.status >= 500 THEN NoRes
  ELSE o.r

\* how a stretch of callAIAgent between two awaits ends
Return(v) == [k |-> "return", v |-> v]
Throw(m) == [k |-> "throw", m |-> m]
Loop == [k |-> "loop"]

\* (mutant) no catch block
CatchNothing(outcome) == outcome

\* the catch block of callAIAgent
Catch(outcome) ==
  IF outcome.k = "throw" THEN Return(ErrorResult(Str(outcome.m))) ELSE outcome

\* callAIAgent from the submit response to the first loop test
AfterSubmit(res) ==
  IF res = NoRes THEN Return(ErrorResult(Str("No response from server")))
  ELSE IF res.body = NotJson THEN Throw("Unexpected token < in JSON")
  ELSE IF Falsy(Get(res.body, "task_id"))
  THEN Return(IF Get(res.body, "success") = Bool(FALSE)
              THEN res.body
              ELSE ErrorResult(Str("No task_id in response")))
  ELSE Loop

\* { ...pollData, agent_id, user_id, session_id }
Attach(pollData, a, u, se) ==
  Obj([k \in DOMAIN pollData.o \cup {"agent_id", "user_id", "session_id"} |->
        CASE k = "agent_id" -> a
          [] k = "user_id" -> u
          [] k = "session_id" -> se
          [] OTHER -> pollData.o[k]])

\* callAIAgent from a poll response to the next loop test
\* (mutant) a poll without a response ends the call
AfterPollGivingUp(res, a, u, se) ==
  IF res = NoRes THEN Return(ErrorResult(Str("No response from server")))
  ELSE IF res.body = NotJson THEN Throw("Unexpected token < in JSON")
  ELSE IF Get(res.body, "status") = Str("processing") THEN Loop
  ELSE Return(Attach(res.body, a, u, se))

AfterPoll(res, a, u, se) ==
  IF res = NoRes THEN Loop
  ELSE IF res.body = NotJson THEN Throw("Unexpected token < in JSON")
  ELSE IF Get(res.body, "status") = Str("processing") THEN Loop
  ELSE Return(Attach(res.body, a, u, se))

Timeout == ErrorResult(Str("Agent task timed out after 5 minutes"))

\* (mutant) the loop test that compares the clock, not the elapsed time
LoopTestClock(outcome, clock, start) ==
  IF outcome.k # "loop" THEN outcome
  ELSE IF clock < POLL_TIMEOUT_MS THEN [k |-> "loop"]
  ELSE [k |-> "return", v |-> Timeout]

\* the loop test, when the stretch ended in the loop: poll again or time out
LoopTest(outcome, clock, start) ==
  IF outcome.k # "loop" THEN outcome
  ELSE IF clock - start < POLL_TIMEOUT_MS THEN Loop
  ELSE Return(Timeout)

(***************************************************************************)
(* State.                                                                  *)
(***************************************************************************)
VARIABLES
  pc,          \* callAIAgent: "idle", "submitting", "sleeping", "polling",
               \* "returned", "threw"
  message,     \* arguments of the call
  agent_id,
  options,
  task_id,     \* destructured from submitData
  user_id,
  session_id,
  startTime,   \* Date.now() when polling started
  attempt,
  delay,       \* the delay of the latest sleep (0: none yet)
  ret,         \* the value callAIAgent returned
  now,         \* the clock, ms
  submits,     \* requests the browser sent to /api/agent to submit
  polls,       \* requests the browser sent to /api/agent to poll
  outstanding, \* requests sent and not yet resolved, by kind
  backendSaw,  \* the kinds of request the route sent to the inference backend
  task,        \* the backend's task state (undefined: no task)
  keySet,      \* LYZR_API_KEY is configured
  lastPoll,    \* what the backend reported to the latest resolved poll
  pollRes,     \* what fetchWrapper handed back for the latest resolved poll:
               \* "unsent", "undefined" or "response"
  onlyProcessing, \* every resolved poll was answered 'processing'
  pxReq,    \* the request a proxy route received last (undefined: none)
  pxSent,   \* the fields it put in its request to the upstream service
  pxResp,   \* the response it sent to the browser
  upPc,       \* uploadFiles: "idle", "uploading", "returned"
  upFiles,    \* its argument: a File or an array of Files
  upRet,      \* the UploadResponse it returned
  upRequests, \* requests the browser sent to /api/upload
  hkPc,       \* where callAgent / callAgentAPI stands: idle, calling, done
  hkApi,      \* which of the two was called
  hkOpts,     \* the options of the hook: onError given, showErrorModal
  hkRecord,   \* the error record the call produced (undefined: none)
  hkResult,   \* what the call returned
  onErrorCalls, \* the records handed to options.onError
  modalCalls, \* the records handed to globalErrorCallback
  frame,      \* how the page is embedded: top, framed, crossOrigin
  senderCalls, \* calls of sendErrorToParent
  postCalls,  \* calls of window.parent.postMessage
  postFailures, \* those of them that threw
  senderThrew, \* a call of sendErrorToParent ended in an exception
  parentInbox, \* the messages the parent window received
  netErr,     \* a request of the call ended in a transport exception
  mounted,    \* the component that made the call is still mounted
  calls,      \* concurrent invocations of callAIAgent: the locals of each
  tasks,      \* the backend's tasks, by handle
  clock,      \* Date.now() of the page the invocations run in
  nIn,      \* the candidate handed to normalizeResponse
  nOut,     \* the latest NormalizedAgentResponse
  nPrev,    \* the NormalizedAgentResponse before the latest one
  nPhase,   \* "in": not normalized yet, "once", "twice"
  dIn,      \* the response body handed to detectResponseIssue
  dOut,     \* what detectResponseIssue returned
  dPhase,   \* "in": not classified yet, "done"
  windowFetch, \* the function window.fetch holds: native, agent, logger
  agentOriginalFetch, \* originalFetch of the agent interceptor module
  interceptorInstalled,
  isInitialized, \* the iframe logger's flag
  loggerOriginalFetch, \* originalFetch of the iframe logger module
  pendingError,
  modalCallback, \* a callback is registered through onInterceptorError
  cbLast,    \* what the registered callback was last invoked with
  cbClean,   \* the callback was registered while nothing was pending
  latestDetected, \* the latest detected error no clear or fix-send followed
  fixInbox,  \* the latest FIX_ERROR_REQUEST the parent window received
  embedding, \* how the page of the interceptor is embedded (see Frames)
  backendActive, \* the scheduler backend's is_active of the schedule
  schedules,  \* useScheduler: the local is_active of the schedule
  schedLoading, \* useScheduler: loading
  schedError, \* useScheduler: error
  toggles,    \* the toggleSchedule invocations: where each stands
  lastToggle, \* how the latest toggleSchedule to resolve ended
  loading,    \* useAgent: loading
  agentErr, \* useAgent: the kind of the error it holds ("none": null)
  agentCalls, \* the callAgent invocations of one useAgent: idle or inflight
  activeAgentId, \* the page: the agent shown as working, or Null
  searching,  \* the page: searching
  digestLoading, \* the page: digestLoading
  searchView, \* the page: what the search panel shows
  digestView, \* the page: what the digest panel shows
  pageCalls   \* handleSearch and handleFetchDigest: idle or inflight

callVars == <<pc, message, agent_id, options, task_id, user_id, session_id,
              startTime, attempt, delay, ret>>
envVars == <<now, submits, polls, outstanding, backendSaw, task, keySet, lastPoll, pollRes,
             onlyProcessing>>
proxyVars == <<pxReq, pxSent, pxResp>>
uploadVars == <<upPc, upFiles, upRet, upRequests>>
hookVars ==
  <<hkPc, hkApi, hkOpts, hkRecord, hkResult, onErrorCalls, modalCalls, frame,
    senderCalls, postCalls, postFailures, senderThrew, parentInbox, netErr, mounted>>
pairVars == <<calls, tasks, clock>>
normVars == <<nIn, nOut, nPrev, nPhase>>
detectVars == <<dIn, dOut, dPhase>>
interceptVars ==
  <<windowFetch, agentOriginalFetch, interceptorInstalled, isInitialized,
    loggerOriginalFetch, pendingError, modalCallback, cbLast, cbClean,
    latestDetected, fixInbox, embedding>>
schedVars ==
  <<backendActive, schedules, schedLoading, schedError, toggles, lastToggle>>
busyVars ==
  <<loading, agentErr, agentCalls, activeAgentId, searching, digestLoading,
    searchView, digestView, pageCalls>>
pageVars == <<detectVars, interceptVars, schedVars, busyVars>>
vars ==
  <<callVars, envVars, proxyVars, uploadVars, pairVars, hookVars, normVars, pageVars>>

\* what the steps of one part of the program leave alone
notCallVars == <<proxyVars, uploadVars, pairVars, hookVars, normVars, pageVars>>
notProxyVars == <<callVars, envVars, uploadVars, pairVars, hookVars, normVars, pageVars>>
notUploadVars == <<callVars, envVars, proxyVars, pairVars, hookVars, normVars, pageVars>>
notPairVars == <<callVars, envVars, proxyVars, uploadVars, hookVars, normVars, pageVars>>
notHookVars == <<proxyVars, uploadVars, pairVars, normVars, pageVars>>
notNormVars == <<callVars, envVars, proxyVars, uploadVars, pairVars, hookVars, pageVars>>
notDetectVars ==
  <<callVars, envVars, proxyVars, uploadVars, pairVars, hookVars, normVars,
    interceptVars, schedVars, busyVars>>
notInterceptVars ==
  <<callVars, envVars, proxyVars, uploadVars, pairVars, hookVars, normVars,
    detectVars, schedVars, busyVars>>
notSchedVars ==
  <<callVars, envVars, proxyVars, uploadVars, pairVars, hookVars, normVars,
    detectVars, interceptVars, busyVars>>
notBusyVars ==
  <<callVars, envVars, proxyVars, uploadVars, pairVars, hookVars, normVars,
    detectVars, interceptVars, schedVars>>

(***************************************************************************)
(* Spec: one callAIAgent invocation against the route and the backend.     *)
(***************************************************************************)
Lates == {i * LateMs : i \in 0..MaxLate}
Uuids == 1..MaxUuid

Messages == {Undef, Str(""), Str("hi")}
AgentIds == {Undef, Str(""), Str("A1")}
OptionSets == {Undef, Obj(("user_id" :> Str("U1")) @@ ("session_id" :> Str("S1")))}

CallIdle ==
  /\ pc = "idle"
  /\ message = Undef
  /\ agent_id = Undef
  /\ options = Undef
  /\ task_id = Undef
  /\ user_id = Undef
  /\ session_id = Undef
  /\ startTime = 0
  /\ attempt = 0
  /\ delay = 0
  /\ ret = Undef
  /\ now = 0
  /\ submits = 0
  /\ polls = 0
  /\ outstanding = [submit |-> 0, poll |-> 0]
  /\ backendSaw = {}
  /\ task = Undef
  /\ lastPoll = "none"
  /\ pollRes = "unsent"
  /\ onlyProcessing = TRUE

NormIdle ==
  /\ nIn = Undef
  /\ nOut = Undef
  /\ nPrev = Undef
  /\ nPhase = "in"

DetectIdle ==
  /\ dIn = Undef
  /\ dOut = Undef
  /\ dPhase = "in"

InterceptIdle ==
  /\ windowFetch = "native"
  /\ agentOriginalFetch = "native"
  /\ interceptorInstalled = FALSE
  /\ isInitialized = FALSE
  /\ loggerOriginalFetch = "none"
  /\ pendingError = Null
  /\ modalCallback = FALSE
  /\ cbLast = Null
  /\ cbClean = TRUE
  /\ latestDetected = Null
  /\ fixInbox = Null
  /\ embedding = "top"

SchedIdle ==
  /\ backendActive = TRUE
  /\ schedules = TRUE
  /\ schedLoading = FALSE
  /\ schedError = Null
  /\ toggles = <<>>
  /\ lastToggle = "none"

BusyIdle ==
  /\ loading = FALSE
  /\ agentErr = "none"
  /\ agentCalls = <<>>
  /\ activeAgentId = Null
  /\ searching = FALSE
  /\ digestLoading = FALSE
  /\ searchView = "empty"
  /\ digestView = "empty"
  /\ pageCalls = <<>>

PageIdle == DetectIdle /\ InterceptIdle /\ SchedIdle /\ BusyIdle

ProxyIdle ==
  /\ pxReq = Undef
  /\ pxSent = Undef
  /\ pxResp = Undef

UploadIdle ==
  /\ upPc = "idle"
  /\ upFiles = Undef
  /\ upRet = Undef
  /\ upRequests = 0

PairIdle ==
  /\ calls = <<>>
  /\ tasks = <<>>
  /\ clock = 0

HookIdle ==
  /\ hkPc = "idle"
  /\ hkApi = "none"
  /\ hkOpts = [onError |-> FALSE, showErrorModal |-> TRUE]
  /\ hkRecord = Undef
  /\ hkResult = Undef
  /\ onErrorCalls = <<>>
  /\ modalCalls = <<>>
  /\ frame = "top"
  /\ senderCalls = 0
  /\ postCalls = 0
  /\ postFailures = 0
  /\ senderThrew = FALSE
  /\ parentInbox = <<>>
  /\ netErr = FALSE
  /\ mounted = TRUE

Init ==
  /\ CallIdle
  /\ keySet \in BOOLEAN
  /\ ProxyIdle
  /\ UploadIdle
  /\ PageIdle
  /\ PairIdle
  /\ HookIdle
  /\ NormIdle

\* JSON.stringify({ message, agent_id, user_id, session_id, assets })
SubmitBody ==
  Serialize(Obj(("message" :> message) @@ ("agent_id" :> agent_id)
                @@ ("user_id" :> Get(options, "user_id"))
                @@ ("session_id" :> Get(options, "session_id"))
                @@ ("assets" :> Get(options, "assets"))))

\* JSON.stringify({ task_id })
PollBody == Serialize(Obj("task_id" :> task_id))

\* the backend made a task for this submit
TaskCreated(up) ==
  /\ up.kind = "http"
  /\ UpOk(up)
  /\ IsJson(up.text)
  /\ ~Falsy(Get(ParseJson(up.text), "task_id"))

\* what the backend told the route about the task: the task's status, the
\* HTTP status of a 4xx reply, or "noanswer" (no connection, 5xx, not JSON)
ReportOf(up) ==
  IF up.kind = "throw" THEN "noanswer"
  ELSE IF up.status >= 400 /\ up.status <= 499 THEN "http" \o ToString(up.status)
  ELSE IF ~UpOk(up) \/ ~IsJson(up.text) THEN "noanswer"
  ELSE Get(ParseJson(up.text), "status").s

\* callAIAgent stops at its next await, returns or throws
Settle(outcome) ==
  /\ pc' = CASE outcome.k = "return" -> "returned"
             [] outcome.k = "throw" -> "threw"
             [] OTHER -> "sleeping"
  /\ ret' = IF outcome.k = "return" THEN outcome.v ELSE ret

\* callAIAgent(message, agent_id, options) up to the submit request
Calling(m, a, o) ==
  /\ pc = "idle"
  /\ message' = m
  /\ agent_id' = a
  /\ options' = o
  /\ submits' = submits + 1
  /\ outstanding' = [outstanding EXCEPT !.submit = @ + 1]
  /\ pc' = "submitting"
  /\ UNCHANGED <<task_id, user_id, session_id, startTime, attempt, delay, ret>>
  /\ UNCHANGED <<now, polls, backendSaw, task, keySet, lastPoll, pollRes, onlyProcessing>>

Call(m, a, o) == Calling(m, a, o) /\ UNCHANGED notCallVars

\* the submit request resolves: the route ran POST (when the request reached
\* it), fetchWrapper filtered the response, callAIAgent went on to its first
\* sleep or returned
SubmitResolved(tr, up, u1, u2, late) ==
  /\ pc = "submitting"
  /\ now' = now + late
  /\ outstanding' = [outstanding EXCEPT !.submit = @ - 1]
  /\ \E contacted \in {tr = "ok" /\ ContactsBackend(SubmitBody, keySet)},
        res \in {fetchWrapper(Fetch(tr, POST(SubmitBody, keySet, up, u1, u2,
                                             ToString(now + late))))} :
       \E after \in {AfterSubmit(res)} :
          /\ backendSaw' = backendSaw \cup (IF contacted THEN {"submit"} ELSE {})
          /\ task' = IF contacted /\ TaskCreated(up) THEN Processing ELSE task
          /\ task_id' = IF after.k = "loop" THEN Get(res.body, "task_id") ELSE task_id
          /\ user_id' = IF after.k = "loop" THEN Get(res.body, "user_id") ELSE user_id
          /\ session_id' =
               IF after.k = "loop" THEN Get(res.body, "session_id") ELSE session_id
          /\ startTime' = IF after.k = "loop" THEN now + late ELSE startTime
          /\ Settle(Catch(LoopTest(after, now + late, now + late)))
  /\ UNCHANGED <<message, agent_id, options, attempt, delay>>
  /\ UNCHANGED <<submits, polls, keySet, lastPoll, pollRes, onlyProcessing>>

SubmitResolves(tr, up, u1, u2, late) ==
  SubmitResolved(tr, up, u1, u2, late) /\ UNCHANGED notCallVars

\* (mutant) a loop that does not wait for its poll to resolve
AwaitedNever(p) == p \in {"sleeping", "polling"}

\* the loop stands at its sleep: every request it awaited has resolved
Awaited(p) == p = "sleeping"

\* the backoff timer fires: attempt++ and the poll request is sent
TimerFired ==
  /\ Awaited(pc)
  /\ outstanding' = [outstanding EXCEPT !.poll = @ + 1]
  /\ delay' = Delay(attempt)
  /\ now' = now + Delay(attempt)
  /\ attempt' = attempt + 1
  /\ polls' = polls + 1
  /\ pc' = "polling"
  /\ UNCHANGED <<message, agent_id, options, task_id, user_id, session_id, startTime, ret>>
  /\ UNCHANGED <<submits, backendSaw, task, keySet, lastPoll, pollRes, onlyProcessing>>

TimerFires == TimerFired /\ UNCHANGED notCallVars

\* the poll request resolves: the route ran POST -> pollTask, fetchWrapper
\* filtered the response, callAIAgent went round the loop or returned
PollResolved(tr, up, late) ==
  /\ pc = "polling"
  /\ now' = now + late
  /\ outstanding' = [outstanding EXCEPT !.poll = @ - 1]
  /\ \E contacted \in {tr = "ok" /\ ContactsBackend(PollBody, keySet)},
        res \in {fetchWrapper(Fetch(tr, POST(PollBody, keySet, up, 1, 1,
                                             ToString(now + late))))} :
       \E report \in {IF contacted THEN ReportOf(up) ELSE "lost"} :
          /\ backendSaw' = backendSaw \cup (IF contacted THEN {"poll"} ELSE {})
          /\ lastPoll' = report
          /\ pollRes' = IF res = NoRes THEN "undefined" ELSE "response"
          /\ onlyProcessing' = (onlyProcessing /\ report = "processing")
          /\ Settle(Catch(LoopTest(AfterPoll(res, agent_id, user_id, session_id),
                                   now + late, startTime)))
  /\ UNCHANGED <<message, agent_id, options, task_id, user_id, session_id,
                 startTime, attempt, delay>>
  /\ UNCHANGED <<submits, polls, task, keySet>>

PollResolves(tr, up, late) == PollResolved(tr, up, late) /\ UNCHANGED notCallVars

\* the backend finishes the task
BackendFinishes(t) ==
  /\ pc \in {"sleeping", "polling"}
  /\ task = Processing
  /\ task' = t
  /\ UNCHANGED callVars
  /\ UNCHANGED <<now, submits, polls, outstanding, backendSaw, keySet, lastPoll, pollRes,
                 onlyProcessing>>
  /\ UNCHANGED notCallVars

CallStep == \E m \in Messages, a \in AgentIds, o \in OptionSets : Call(m, a, o)

SubmitStep ==
  \E tr \in Transports, up \in UpstreamSubmit, u1 \in Uuids, u2 \in Uuids,
     late \in Lates :
    SubmitResolves(tr, up, u1, u2, late)

PollStep ==
  \E tr \in Transports, up \in UpstreamPoll(task), late \in Lates :
    PollResolves(tr, up, late)

BackendStep == \E t \in TaskStates \ {Processing} : BackendFinishes(t)

Next == CallStep \/ SubmitStep \/ TimerFires \/ PollStep \/ BackendStep

Spec == Init /\ [][Next]_vars

\* every request resolves and every timer fires: while the call waits for one
\* of them, a step is taken
FairSpec == Spec /\ WF_vars(Next)

(***************************************************************************)
(* Properties of callAIAgent.                                              *)
(***************************************************************************)
Returned == pc = "returned"
FailureValue(v) ==
  /\ Get(v, "success") = Bool(FALSE)
  /\ Get(Get(v, "response"), "status") = Str("error")
NoMorePolls == [][Returned => polls' = polls /\ submits' = submits]_vars

\* C1: once a poll finds that the backend reports the task failed with error
\* text E, the loop is over: callAIAgent has returned success=false with
\* response {status: 'error', result: {}, message: E}
C1_FailedTaskEndsLoop ==
  (lastPoll = "failed" /\ Has(task, "error")) =>
     /\ Returned
     /\ Get(ret, "success") = Bool(FALSE)
     /\ Get(ret, "response") = ErrorResponse(Get(task, "error"))

\* C2: against a backend that answers 'processing' to every poll, callAIAgent
\* returns, what it returns is the timeout failure, POLL_TIMEOUT_MS or more
\* has passed since polling started, and no request follows the return
C2_TimesOut ==
  Returned /\ onlyProcessing /\ polls > 0 =>
     /\ ret = Timeout
     /\ FailureValue(ret)
     /\ Get(Get(ret, "response"), "message") = Str("Agent task timed out after 5 minutes")
     /\ now - startTime >= POLL_TIMEOUT_MS
C2_ProcessingForeverTimesOut ==
  /\ []C2_TimesOut
  /\ NoMorePolls
  /\ ([]onlyProcessing) => ((pc = "sleeping") ~> Returned)
C2_Witness == Returned /\ onlyProcessing /\ polls > 0 /\ ret = Timeout

\* C3 (as claimed): a call whose message or agent id is missing or empty
\* issues no network request and returns a validation failure
BadArguments == pc # "idle" /\ (Falsy(message) \/ Falsy(agent_id))
C5_ReturnShape ==
  Returned =>
     /\ TypeOf(Get(ret, "success")) = "boolean"
     /\ Get(Get(ret, "response"), "status") \in {Str("success"), Str("error")}
     /\ Has(Get(ret, "response"), "result")

\* C6: a poll the backend answers with 404 ends the call with the failure
\* 'Task expired or not found' and no further poll, while a poll the backend
\* answers with a 5xx never ends it that way
NotFoundValue ==
  /\ Get(ret, "success") = Bool(FALSE)
  /\ Get(ret, "error") = Str("Task expired or not found")
C6_NotFound ==
  /\ lastPoll = "http404" => Returned /\ NotFoundValue
  /\ lastPoll = "noanswer" => ~(Returned /\ NotFoundValue)
C6_NotFoundIsTerminal == []C6_NotFound /\ NoMorePolls
C6_Witness == lastPoll = "http404" /\ Returned /\ NotFoundValue

\* C26: a poll for which fetchWrapper yields no response is not terminal:
\* it has consumed an attempt, the loop sleeps and polls again with the
\* backoff advanced, and the call ends only through a later poll or through
\* the timeout
C26_NoResponseSafe ==
  /\ attempt = polls
  /\ pollRes = "undefined" =>
       \/ pc \in {"sleeping", "polling"}
       \/ pc = "returned" /\ ret = Timeout
C26_NoResponseStep ==
  (pollRes = "undefined" /\ polls' = polls + 1) =>
     attempt' = attempt + 1 /\ delay' = Delay(attempt)
NormInit ==
  /\ CallIdle
  /\ keySet = TRUE
  /\ ProxyIdle
  /\ UploadIdle
  /\ PageIdle
  /\ PairIdle
  /\ HookIdle
  /\ nIn \in Candidates
  /\ nOut = Undef
  /\ nPrev = Undef
  /\ nPhase = "in"

\* normalizeResponse(toNormalize)
Normalize ==
  /\ nPhase = "in"
  /\ nOut' = normalizeResponse(nIn)
  /\ nPhase' = "once"
  /\ UNCHANGED <<nIn, nPrev>>
  /\ UNCHANGED notNormVars

\* a caller hands an already normalized response back to normalizeResponse
NormalizeAgain ==
  /\ nPhase = "once"
  /\ nPrev' = nOut
  /\ nOut' = normalizeResponse(nOut)
  /\ nPhase' = "twice"
  /\ UNCHANGED nIn
  /\ UNCHANGED notNormVars

NormNext == Normalize \/ NormalizeAgain

SpecNorm == NormInit /\ [][NormNext]_vars

(***************************************************************************)
(* Properties of normalizeResponse.                                        *)
(***************************************************************************)
NormStatus == Get(nOut, "status")
SignalsError(v) == Falsy(v) \/ Get(v, "status") = Str("error")
ResultWithoutStatus(v) ==
  ~Falsy(v) /\ TypeOf(v) = "object" /\ Has(v, "result") /\ ~Has(v, "status")

\* the value the normalizer ends up looking at: it follows the response field
\* of an object that has no status, no result and no string message
RECURSIVE Innermost(_)
Innermost(v) ==
  IF /\ ~Falsy(v)
     /\ TypeOf(v) = "object"
     /\ ~Has(v, "status")
     /\ ~Has(v, "result")
     /\ TypeOf(Get(v, "message")) # "string"
     /\ Has(v, "response")
  THEN Innermost(Get(v, "response"))
  ELSE v

\* C8 (as claimed): the status is 'error' only when the candidate itself is
\* empty or has status 'error'; every other candidate, and every object with a
\* result key and no status key, normalizes to 'success'
C8_ErrorOnlyIfCandidateSignals ==
  nPhase = "once" =>
     /\ NormStatus = Str("error") => SignalsError(nIn)
     /\ ~SignalsError(nIn) => NormStatus = Str("success")
     /\ ResultWithoutStatus(nIn) => NormStatus = Str("success")

\* C8 (amended): the status is 'error' only when the candidate, or the value
\* reached through the response fields the normalizer follows, is empty or has
\* status 'error'; everything else, and every object with a result key and no
\* status key, normalizes to 'success'
C8_ErrorOnlyIfInnermostSignals ==
  nPhase = "once" =>
     /\ NormStatus = Str("error") => SignalsError(Innermost(nIn))
     /\ ~SignalsError(Innermost(nIn)) => NormStatus = Str("success")
     /\ ResultWithoutStatus(nIn) => NormStatus = Str("success")
C8_Witness ==
  /\ nPhase = "once"
  /\ nIn = Obj("response" :> Obj("status" :> Str("error")))
  /\ NormStatus = Str("error")

\* C9: normalizing a normalized response changes none of status, result,
\* message, metadata
C9_Idempotent ==
  nPhase = "twice" =>
     \A k \in {"status", "result", "message", "metadata"} : Get(nOut, k) = Get(nPrev, k)
C9_Witness ==
  /\ nPhase = "twice"
  /\ Get(nIn, "result") = Str("Hello back")
  /\ Get(nOut, "result") = Obj("text" :> Str("Hello back"))

\* the places a message is looked for, highest priority first
MessageSources(v) ==
  <<Get(v, "message"),
    IF Get(v, "result").t = "string" THEN Get(v, "result") ELSE Null>>
    \o [i \in 1..6 |->
         Get(Get(v, "result"),
             <<"text", "message", "response", "answer", "summary", "content">>[i])]
Populated(x) == x.t \notin {"undefined", "null"}
HoldsString(x) == x.t = "string"

\* the highest-priority populated source (undefined: none is populated)
FirstPopulated(v) ==
  LET src == MessageSources(v)
      at == {i \in DOMAIN src : Populated(src[i])}
  IN IF at = {} THEN Undef
     ELSE src[CHOOSE i \in at : \A j \in at : i <= j]

\* C21 (as claimed): when any source holds a string, the returned message is
\* a string, that of the highest-priority populated source
C21_MessageIsFirstString ==
  (/\ nPhase = "once"
   /\ ResultWithoutStatus(nIn)
   /\ \E i \in DOMAIN MessageSources(nIn) : HoldsString(MessageSources(nIn)[i])) =>
     /\ HoldsString(Get(nOut, "message"))
     /\ Get(nOut, "message") = FirstPopulated(nIn)

\* C21 (amended): the returned message is the highest-priority populated
\* source when that source is a string, and absent when it is not, whatever
\* the sources below it hold
C21_MessageIsFirstPopulated ==
  (nPhase = "once" /\ ResultWithoutStatus(nIn)) =>
     Get(nOut, "message") =
       (IF HoldsString(FirstPopulated(nIn)) THEN FirstPopulated(nIn) ELSE Undef)
C21_Witness ==
  /\ nPhase = "once"
  /\ Get(nIn, "message") = Num(1)
  /\ Get(nIn, "result") = Obj(("text" :> Null) @@ ("answer" :> Str("42")))
  /\ Get(nOut, "message") = Undef
  /\ ~Has(nIn, "status")

\* the field k, of value x, of the candidate is still to be found in out:
\* under its own key inside result, as result itself (a string result is
\* kept as {text: result}), as message, as metadata, as the status it was
\* mapped to, or as the response the normalizer went on to normalize
Kept(k, x, out) ==
  \/ Get(Get(out, "result"), k) = x
  \/ k = "result" /\ Get(out, "result") \in {x, Obj("text" :> x)}
  \/ k = "message" /\ Get(out, "message") = x
  \/ k = "metadata" /\ Get(out, "metadata") = x
  \/ k = "status" /\ Get(out, "status") = StatusOf(x)
  \/ k = "response" /\ out = normalizeResponse(x)

KeepingCase(v) ==
  /\ ~Falsy(v) /\ v.t = "object" /\ ~Has(v, "result")
  /\ \/ Has(v, "status")
     \/ ~HoldsString(Get(v, "message")) /\ ~Has(v, "response")

C10_Scalars ==
  nPhase = "once" /\ nIn.t \in {"number", "boolean"} /\ ~Falsy(nIn) =>
     /\ NormStatus = Str("success")
     /\ Get(nOut, "result") = Obj("value" :> nIn)
     /\ Get(nOut, "message") =
          (IF nIn.t = "boolean" THEN Str("true") ELSE Str(ToString(nIn.n)))
C10_Witness ==
  /\ nPhase = "once"
  /\ nIn = Num(MaxNum)
  /\ Get(nOut, "message") = Str(ToString(MaxNum))

(***************************************************************************)
(* The proxy routes and the server's key: /api/scheduler and /api/rag,     *)
(* next to /api/agent above.  A request is the object of its query or body *)
(* fields; the fields a route puts in the URL or the body of its upstream  *)
(* request are its "sent" object (the x-api-key header is not part of it). *)
(***************************************************************************)
SecretKey == "sk-lyzr-0001"

\* process.env.LYZR_API_KEY || ''
LYZR_API_KEY(set) == IF set THEN Str(SecretKey) ELSE Str("")

\* a parameter that is copied only when it is present
IfSet(v) == IF Falsy(v) THEN Undef ELSE v

\* an upstream reply: response.text() is text, response.json() is data or throws
UpReply(status, data) ==
  [kind |-> "http", status |-> status, data |-> data,
   text |-> IF data = NotJson THEN "Bad Gateway" ELSE Stringify(data)]

\* the bodies an upstream builds from the fields it was sent
ReplyDocs(sent) ==
  {NotJson, Obj("id" :> Str("S1")), sent,
   Obj(("schedules" :> Arr(<<sent>>)) @@ ("total" :> Num(1))),
   Arr(<<Str("storage/guide.pdf"), Str("notes")>>)}

ReplyStatuses == {200, 202, 204, 404, 500}

UpstreamReplies(sent) ==
  {UpThrow} \cup {UpReply(st, d) : st \in ReplyStatuses, d \in ReplyDocs(sent)}

\* { ...data }
Spread(data) ==
  CASE data.t = "object" -> data.o
    [] data.t = "array" ->
         [k \in {ToString(i - 1) : i \in DOMAIN data.a} |->
            data.a[CHOOSE i \in DOMAIN data.a : ToString(i - 1) = k]]
    [] OTHER -> NoFields

Refusal(m, status) ==
  JsonResponse(Obj(("success" :> Bool(FALSE)) @@ ("error" :> Str(m))), status)

\* apiKeyCheck()
apiKeyCheck(key) ==
  IF Falsy(key) THEN Refusal("LYZR_API_KEY not configured on server", 500) ELSE Undef

\* the catch of every handler: error.message
Caught(m) == Refusal(m, 500)

\* the answer to an upstream reply that is not ok
UpstreamError(prefix, up) ==
  JsonResponse(Obj(("success" :> Bool(FALSE))
                   @@ ("error" :> Str(prefix \o ToString(up.status)))
                   @@ ("details" :> Str(up.text))), up.status)

\* { success: true, ...data } of a reply that is ok
Forwarded(up) ==
  IF up.data = NotJson THEN Caught("Unexpected token B in JSON")
  ELSE JsonResponse(Obj(Spread(up.data) @@ ("success" :> Bool(TRUE))), 200)

\* GET /api/scheduler: validation of the switch, the upstream URL, the answer
SchedulerGetAction(q) == OrElse(Get(q, "action"), Str("list"))

SchedulerGetRefused(q) ==
  LET action == SchedulerGetAction(q)
  IN IF action \in {Str("get"), Str("logs")} /\ Falsy(Get(q, "scheduleId"))
     THEN Refusal("scheduleId is required", 400)
     ELSE IF action = Str("by-agent") /\ Falsy(Get(q, "agentId"))
     THEN Refusal("agentId is required", 400)
     ELSE Undef

SchedulerGetSent(q, key) ==
  LET action == SchedulerGetAction(q)
  IN Serialize(
       CASE action = Str("get") -> Obj("scheduleId" :> Get(q, "scheduleId"))
         [] action = Str("by-agent") -> Obj("agentId" :> Get(q, "agentId"))
         [] action = Str("logs") -> Obj(("scheduleId" :> Get(q, "scheduleId"))
                                        @@ ("limit" :> IfSet(Get(q, "limit"))))
         [] action = Str("recent") -> Obj(("agent_id" :> IfSet(Get(q, "agentId")))
                                          @@ ("limit" :> IfSet(Get(q, "limit"))))
         [] OTHER -> Obj(("user_id" :> key)
                         @@ ("agent_id" :> IfSet(Get(q, "agentId")))
                         @@ ("limit" :> IfSet(Get(q, "limit")))))

SchedulerGET(q, key, up) ==
  IF apiKeyCheck(key) # Undef THEN apiKeyCheck(key)
  ELSE IF SchedulerGetRefused(q) # Undef THEN SchedulerGetRefused(q)
  ELSE IF up.kind = "throw" THEN Caught("fetch failed")
  ELSE IF ~UpOk(up) THEN UpstreamError("Scheduler API error: ", up)
  ELSE Forwarded(up)

\* POST /api/scheduler
SchedulerPostRefused(body) ==
  IF Get(body, "action") \in {Str("trigger"), Str("pause"), Str("resume")}
  THEN IF Falsy(Get(body, "scheduleId"))
       THEN Refusal("scheduleId is required", 400) ELSE Undef
  ELSE IF Falsy(Get(body, "agent_id")) \/ Falsy(Get(body, "cron_expression"))
            \/ Falsy(Get(body, "message"))
  THEN Refusal("agent_id, cron_expression, and message are required", 400)
  ELSE Undef

SchedulerPostSent(body, key) ==
  IF Get(body, "action") \in {Str("trigger"), Str("pause"), Str("resume")}
  THEN Obj("scheduleId" :> Get(body, "scheduleId"))
  ELSE Serialize(Obj(("agent_id" :> Get(body, "agent_id"))
                     @@ ("cron_expression" :> Get(body, "cron_expression"))
                     @@ ("message" :> Get(body, "message"))
                     @@ ("timezone" :> OrElse(Get(body, "timezone"), Str("UTC")))
                     @@ ("user_id" :> key)
                     @@ ("max_retries" :> Coalesce(Get(body, "max_retries"), Num(3)))
                     @@ ("retry_delay" :> Coalesce(Get(body, "retry_delay"), Num(300)))))

SchedulerPOST(body, key, up) ==
  IF apiKeyCheck(key) # Undef THEN apiKeyCheck(key)
  ELSE IF SchedulerPostRefused(body) # Undef THEN SchedulerPostRefused(body)
  ELSE IF up.kind = "throw" THEN Caught("fetch failed")
  ELSE IF Get(body, "action") = Str("trigger")
  THEN IF up.status = 202
       THEN JsonResponse(Obj(("success" :> Bool(TRUE))
                             @@ ("message" :> Str("Schedule triggered successfully"))), 200)
       ELSE UpstreamError("Trigger failed: ", up)
  ELSE IF ~UpOk(up) THEN UpstreamError("Scheduler API error: ", up)
  ELSE Forwarded(up)

\* DELETE /api/scheduler
SchedulerDELETE(body, key, up) ==
  IF apiKeyCheck(key) # Undef THEN apiKeyCheck(key)
  ELSE IF Falsy(Get(body, "scheduleId")) THEN Refusal("scheduleId is required", 400)
  ELSE IF up.kind = "throw" THEN Caught("fetch failed")
  ELSE IF up.status = 204 \/ UpOk(up)
  THEN JsonResponse(Obj(("success" :> Bool(TRUE))
                        @@ ("message" :> Str("Schedule deleted successfully"))
                        @@ ("scheduleId" :> Get(body, "scheduleId"))), 200)
  ELSE UpstreamError("Failed to delete schedule: ", up)

\* filePath.split("/").pop() and fileName.split(".").pop() of the listed paths
PathTail == ("storage/guide.pdf" :> "guide.pdf") @@ ("notes" :> "notes")
Extension == ("guide.pdf" :> "pdf") @@ ("notes" :> "notes")

FILE_TYPE_MAP == ("application/pdf" :> "pdf") @@ ("text/plain" :> "txt")

\* one entry of documents
DocumentOf(filePath) ==
  LET fileName == PathTail[filePath.s]
      ext == Extension[fileName]
  IN Obj(("fileName" :> Str(fileName))
         @@ ("fileType" :> Str(IF ext \in {"pdf", "docx", "txt"} THEN ext ELSE "unknown"))
         @@ ("status" :> Str("active")))

\* POST /api/rag with a JSON body: list the documents
RagList(body, up, ts) ==
  LET filePaths == IF up.data.t = "array" THEN up.data
                   ELSE OrElse(Get(up.data, "documents"),
                               OrElse(Get(up.data, "data"), Arr(<<>>)))
  IN IF Falsy(Get(body, "ragId")) THEN Refusal("ragId is required", 400)
     ELSE IF up.kind = "throw" THEN Caught("fetch failed")
     ELSE IF ~UpOk(up) THEN UpstreamError("Failed to get documents: ", up)
     ELSE IF up.data = NotJson THEN Caught("Unexpected token B in JSON")
     ELSE IF filePaths.t # "array" THEN Caught("filePaths.map is not a function")
     ELSE IF \E i \in DOMAIN filePaths.a : filePaths.a[i].t # "string"
     THEN Caught("filePath.split is not a function")
     ELSE JsonResponse(Obj(("success" :> Bool(TRUE))
                           @@ ("documents" :> Arr([i \in DOMAIN filePaths.a |->
                                                      DocumentOf(filePaths.a[i])]))
                           @@ ("ragId" :> Get(body, "ragId"))
                           @@ ("timestamp" :> Str(ts))), 200)

\* POST /api/rag with form data: upload and train
RagUploadRefused(form) ==
  LET file == Get(form, "file")
  IN IF Falsy(Get(form, "ragId")) \/ Falsy(file)
     THEN Refusal("ragId and file are required", 400)
     ELSE IF Get(file, "type").s \notin DOMAIN FILE_TYPE_MAP
     THEN Refusal("Unsupported file type: " \o Get(file, "type").s
                    \o ". Supported: PDF, DOCX, TXT", 400)
     ELSE Undef

RagUpload(form, up, ts) ==
  LET file == Get(form, "file")
  IN IF RagUploadRefused(form) # Undef THEN RagUploadRefused(form)
     ELSE IF up.kind = "throw" THEN Caught("fetch failed")
     ELSE IF ~UpOk(up) THEN UpstreamError("Failed to train document: ", up)
     ELSE IF up.data = NotJson THEN Caught("Unexpected token B in JSON")
     ELSE JsonResponse(
            Obj(("success" :> Bool(TRUE))
                @@ ("message" :> Str("Document uploaded and trained successfully"))
                @@ ("fileName" :> Get(file, "name"))
                @@ ("fileType" :> Str(FILE_TYPE_MAP[Get(file, "type").s]))
                @@ ("documentCount" :> OrElse(Get(up.data, "document_count"),
                                              OrElse(Get(up.data, "chunks"), Num(1))))
                @@ ("ragId" :> Get(form, "ragId"))
                @@ ("timestamp" :> Str(ts))), 200)

RagPOST(ctype, body, key, up, ts) ==
  IF Falsy(key) THEN Refusal("LYZR_API_KEY not configured on server", 500)
  ELSE IF ctype = "application/json" THEN RagList(body, up, ts)
  ELSE RagUpload(body, up, ts)

RagPostRefused(ctype, body) ==
  IF ctype = "application/json"
  THEN IF Falsy(Get(body, "ragId")) THEN Refusal("ragId is required", 400) ELSE Undef
  ELSE RagUploadRefused(body)

RagPostSent(ctype, body) ==
  IF ctype = "application/json" THEN Obj("ragId" :> Get(body, "ragId"))
  ELSE Obj(("rag_id" :> Get(body, "ragId")) @@ ("file" :> Get(Get(body, "file"), "name")))

\* PATCH /api/rag: crawl a website
RagPatchRefused(body) ==
  IF Falsy(Get(body, "ragId")) \/ Falsy(Get(body, "url"))
  THEN Refusal("ragId and url are required", 400) ELSE Undef

RagPATCH(body, key, up, ts) ==
  IF Falsy(key) THEN Refusal("LYZR_API_KEY not configured on server", 500)
  ELSE IF RagPatchRefused(body) # Undef THEN RagPatchRefused(body)
  ELSE IF up.kind = "throw" THEN Caught("fetch failed")
  ELSE IF ~UpOk(up) THEN UpstreamError("Failed to crawl website: ", up)
  ELSE JsonResponse(
         Obj(("success" :> Bool(TRUE))
             @@ ("message" :> Str("Website crawl started successfully. "
                                    \o "Content will be available shortly."))
             @@ ("url" :> Get(body, "url"))
             @@ ("ragId" :> Get(body, "ragId"))
             @@ ("timestamp" :> Str(ts))), 200)

\* DELETE /api/rag: remove documents
RagDeleteRefused(body) ==
  IF Falsy(Get(body, "ragId")) \/ Falsy(Get(body, "documentNames"))
       \/ Get(body, "documentNames").t # "array"
  THEN Refusal("ragId and documentNames array are required", 400) ELSE Undef

RagDELETE(body, key, up, ts) ==
  IF Falsy(key) THEN Refusal("LYZR_API_KEY not configured on server", 500)
  ELSE IF RagDeleteRefused(body) # Undef THEN RagDeleteRefused(body)
  ELSE IF up.kind = "throw" THEN Caught("fetch failed")
  ELSE IF ~UpOk(up) THEN UpstreamError("Failed to delete documents: ", up)
  ELSE JsonResponse(
         Obj(("success" :> Bool(TRUE))
             @@ ("message" :> Str("Documents deleted successfully"))
             @@ ("deletedCount" :> Num(Len(Get(body, "documentNames").a)))
             @@ ("ragId" :> Get(body, "ragId"))
             @@ ("timestamp" :> Str(ts))), 200)

\* the payload submitTask posts, or the task id pollTask puts in its URL
AgentSent(body, u1, u2) ==
  IF ~Falsy(Get(body, "task_id")) THEN Obj("task_id" :> Get(body, "task_id"))
  ELSE Obj(("message" :> Get(body, "message"))
           @@ ("agent_id" :> Get(body, "agent_id"))
           @@ ("user_id" :> OrElse(Get(body, "user_id"),
                                   Str("user-" \o generateUUID(u1))))
           @@ ("session_id" :> OrElse(Get(body, "session_id"),
                                      Str(StringOf(Get(body, "agent_id")) \o "-"
                                            \o generateUUID(u2)))))

(***************************************************************************)
(* SpecProxy: the three proxy routes answering a request.  The handlers    *)
(* keep nothing between requests, so a behaviour is one request.           *)
(***************************************************************************)
Present(vs) == {Undef} \cup vs

SchedulerQueries ==
  {Serialize(Obj(("action" :> a) @@ ("scheduleId" :> sc) @@ ("agentId" :> g)
                 @@ ("limit" :> l))) :
     a \in Present({Str("list"), Str("get"), Str("by-agent"), Str("logs"), Str("recent")}),
     sc \in Present({Str("S1")}), g \in Present({Str("A1")}), l \in Present({Str("10")})}

SchedulerBodies ==
  {Serialize(Obj(("action" :> a) @@ ("scheduleId" :> sc) @@ ("agent_id" :> g)
                 @@ ("cron_expression" :> c) @@ ("message" :> Str("digest"))
                 @@ ("max_retries" :> r))) :
     a \in Present({Str("create"), Str("trigger"), Str("pause"), Str("resume")}),
     sc \in Present({Str("S1")}), g \in Present({Str("A1")}),
     c \in Present({Str("0 9 * * *")}), r \in Present({Num(0)})}

SchedulerDeletes == {Serialize(Obj("scheduleId" :> sc)) : sc \in Present({Str("S1")})}

RagIds == Present({Str("R1")})
RagFiles ==
  Present({Obj(("name" :> Str("guide.pdf")) @@ ("type" :> Str("application/pdf"))),
           Obj(("name" :> Str("run.exe")) @@ ("type" :> Str("application/octet-stream")))})
RagLists == {Serialize(Obj("ragId" :> r)) : r \in RagIds}
RagForms == {Serialize(Obj(("ragId" :> r) @@ ("file" :> f))) : r \in RagIds, f \in RagFiles}
RagCrawls ==
  {Serialize(Obj(("ragId" :> r) @@ ("url" :> u))) :
     r \in RagIds, u \in Present({Str("https://example.com")})}
RagRemovals ==
  {Serialize(Obj(("ragId" :> r) @@ ("documentNames" :> d))) :
     r \in RagIds, d \in Present({Str("guide.pdf"), Arr(<<Str("guide.pdf")>>)})}

AgentBodies ==
  {AgentEcho, Obj("message" :> Str("hi")), Obj("task_id" :> Str("T1"))}

AgentUpstream ==
  UpstreamSubmit \cup UNION {UpstreamPoll(t) : t \in TaskStates}
    \cup {UpHttp(422, JsonTable[AgentEcho])}

ProxyTime == "2026-01-01T00:00:00.000Z"

\* a route answers the request: refused before any upstream request, or
\* sent upstream and answered from the reply
Answers(route, method, req, sent, resp) ==
  /\ pxReq' = [route |-> route, method |-> method, in |-> req]
  /\ pxSent' = sent
  /\ pxResp' = resp
  /\ UNCHANGED notProxyVars

SentIf(contacted, sent) == IF contacted THEN sent ELSE Undef

SchedulerGetStep ==
  /\ pxReq = Undef
  /\ \E q \in SchedulerQueries :
      \E sent \in {SentIf(keySet /\ SchedulerGetRefused(q) = Undef,
                          SchedulerGetSent(q, LYZR_API_KEY(keySet)))} :
        \E up \in UpstreamReplies(sent) :
          Answers("scheduler", "GET", q, sent, SchedulerGET(q, LYZR_API_KEY(keySet), up))

SchedulerPostStep ==
  /\ pxReq = Undef
  /\ \E body \in SchedulerBodies :
      \E sent \in {SentIf(keySet /\ SchedulerPostRefused(body) = Undef,
                          SchedulerPostSent(body, LYZR_API_KEY(keySet)))} :
        \E up \in UpstreamReplies(sent) :
          Answers("scheduler", "POST", body, sent,
                  SchedulerPOST(body, LYZR_API_KEY(keySet), up))

SchedulerDeleteStep ==
  /\ pxReq = Undef
  /\ \E body \in SchedulerDeletes :
      \E sent \in {SentIf(keySet /\ ~Falsy(Get(body, "scheduleId")),
                          Obj("scheduleId" :> Get(body, "scheduleId")))} :
        \E up \in UpstreamReplies(sent) :
          Answers("scheduler", "DELETE", body, sent,
                  SchedulerDELETE(body, LYZR_API_KEY(keySet), up))

RagPostStep ==
  /\ pxReq = Undef
  /\ \E ctype \in {"application/json", "multipart/form-data"} :
      \E body \in IF ctype = "application/json" THEN RagLists ELSE RagForms :
        \E sent \in {SentIf(keySet /\ RagPostRefused(ctype, body) = Undef,
                            RagPostSent(ctype, body))} :
          \E up \in UpstreamReplies(sent) :
            Answers("rag", "POST", body, sent,
                    RagPOST(ctype, body, LYZR_API_KEY(keySet), up, ProxyTime))

RagPatchStep ==
  /\ pxReq = Undef
  /\ \E body \in RagCrawls :
      \E sent \in {SentIf(keySet /\ RagPatchRefused(body) = Undef,
                          Obj(("url" :> Get(body, "url")) @@ ("rag_id" :> Get(body, "ragId"))))} :
        \E up \in UpstreamReplies(sent) :
          Answers("rag", "PATCH", body, sent,
                  RagPATCH(body, LYZR_API_KEY(keySet), up, ProxyTime))

RagDeleteStep ==
  /\ pxReq = Undef
  /\ \E body \in RagRemovals :
      \E sent \in {SentIf(keySet /\ RagDeleteRefused(body) = Undef,
                          Obj(("ragId" :> Get(body, "ragId"))
                              @@ ("documentNames" :> Get(body, "documentNames"))))} :
        \E up \in UpstreamReplies(sent) :
          Answers("rag", "DELETE", body, sent,
                  RagDELETE(body, LYZR_API_KEY(keySet), up, ProxyTime))

AgentPostStep ==
  /\ pxReq = Undef
  /\ \E body \in AgentBodies, up \in AgentUpstream, u1 \in Uuids, u2 \in Uuids :
      Answers("agent", "POST", body,
              SentIf(ContactsBackend(body, keySet), AgentSent(body, u1, u2)),
              POST(body, keySet, up, u1, u2, ProxyTime))

ProxyNext ==
  \/ SchedulerGetStep
  \/ SchedulerPostStep
  \/ SchedulerDeleteStep
  \/ RagPostStep
  \/ RagPatchStep
  \/ RagDeleteStep
  \/ AgentPostStep

SpecProxy == Init /\ [][ProxyNext]_vars

(***************************************************************************)
(* Properties of the proxy routes.                                         *)
(***************************************************************************)
\* the strings a JSON body carries
RECURSIVE Strings(_)
Strings(v) ==
  CASE v.t = "string" -> {v.s}
    [] v.t = "object" -> UNION {Strings(v.o[k]) : k \in DOMAIN v.o}
    [] v.t = "array" -> UNION {Strings(v.a[i]) : i \in DOMAIN v.a}
    [] OTHER -> {}

\* the reply texts, built from the fields sent upstream, that spell the secret
TextsHolding(sent, secret) ==
  IF sent = Undef THEN {}
  ELSE {Stringify(d) : d \in {x \in ReplyDocs(sent) : secret \in Strings(x)}}

\* the body carries the secret, as a string of its own or inside a reply text
Leaks(body, sent, secret) ==
  \E str \in Strings(body) : str = secret \/ str \in TextsHolding(sent, secret)

\* C7: with the key configured, no response body that the agent, scheduler
\* or RAG route sends to the browser contains the value of LYZR_API_KEY,
\* whatever the request and whatever the upstream replies, an upstream
\* that echoes the fields it was sent included.
C7_KeyNeverReachesBrowser ==
  (keySet /\ pxResp # Undef) => ~Leaks(pxResp.body, pxSent, SecretKey)

(***************************************************************************)
(* Scenarios of a call, end to end.                                        *)
(***************************************************************************)
\* the call of the scenarios: 'hi' to agent 'A1', answered with task 'T1',
\* returned after the poll that found the task completed with payload p
Scenario(p) ==
  /\ Returned
  /\ message = Str("hi")
  /\ agent_id = Str("A1")
  /\ task_id = Str("T1")
  /\ lastPoll = "completed"
  /\ task = Completed(p)

\* C11: Scenario A, end to end: the task completes with the string
\* 'Hello back' and callAIAgent returns success=true with the response
\* {status: 'success', result: {text: 'Hello back'}, message: 'Hello back'}
C11_ScenarioA ==
  Scenario(Str("Hello back")) =>
     /\ Get(ret, "success") = Bool(TRUE)
     /\ Get(ret, "response") =
          Obj(("status" :> Str("success"))
              @@ ("result" :> Obj("text" :> Str("Hello back")))
              @@ ("message" :> Str("Hello back")))
C11_Witness == Scenario(Str("Hello back")) /\ Get(ret, "status") = Str("completed")

\* C12: Scenario C: the task completes with a string that holds the JSON text
\* of {result: {answer: '42'}}, and the normalized response that comes back has
\* result = {answer: '42'} and message = '42'
C12_ScenarioC ==
  Scenario(Str(AnswerText)) =>
     /\ Get(Get(ret, "response"), "result") = Obj("answer" :> Str("42"))
     /\ Get(Get(ret, "response"), "message") = Str("42")

\* the call returned what the poll that found the task completed with
\* payload p brought back
Completion(p) ==
  /\ Returned
  /\ lastPoll = "completed"
  /\ task = Completed(p)
  /\ Get(ret, "status") = Str("completed")

\* the payload is an envelope: an object with a response field
IsEnvelope(p) == ~Falsy(p) /\ p.t = "object" /\ Has(p, "response")

\* the candidate the unwrap step is to hand on
CandidateOf(p) == IF IsEnvelope(p) THEN Get(p, "response") ELSE p

\* a candidate after the extractor: the JSON value it holds, or the
\* candidate itself when it holds none
Extracted(c) == IF parseLLMJson(c) = ParseFailure THEN c ELSE parseLLMJson(c)

\* a value as it arrives in a JSON body
Arrived(v) == Get(Serialize(Obj("v" :> v)), "v")

\* C23: for a completed task pollTask hands on the inner response of an
\* envelope payload and returns the envelope's module_outputs; otherwise it
\* hands on the whole payload and module_outputs is absent; raw_response is
\* always the JSON text of the whole payload
C23_UnwrapsPayload ==
  \A p \in Payloads : Completion(p) =>
     /\ Get(ret, "response") = Arrived(normalizeResponse(Extracted(CandidateOf(p))))
     /\ Get(ret, "module_outputs") =
          (IF IsEnvelope(p) THEN Get(p, "module_outputs") ELSE Undef)
     /\ Get(ret, "raw_response") = Str(Stringify(p))

\* the same, the double-encoded payload set aside
C23_UnwrapsOtherPayloads ==
  \A p \in Payloads \ {Str(AnswerText)} : Completion(p) =>
     /\ Get(ret, "response") = Arrived(normalizeResponse(Extracted(CandidateOf(p))))
     /\ Get(ret, "module_outputs") =
          (IF IsEnvelope(p) THEN Get(p, "module_outputs") ELSE Undef)
     /\ Get(ret, "raw_response") = Str(Stringify(p))

(***************************************************************************)
(* uploadFiles and SpecUpload.  The /api/upload route is outside the       *)
(* sources at hand; UploadRoute is its reply as the specification gives it.*)
(***************************************************************************)
MaxFiles == 3

FileNames == {"a.pdf", "b.txt"}
File(name) == Obj("name" :> Str(name))

\* the arguments of uploadFiles: one File, or an array of up to MaxFiles
FileArguments ==
  {File(n) : n \in FileNames}
    \cup {Arr([i \in 1..len |-> File(f[i])]) :
            f \in [1..MaxFiles -> FileNames], len \in 0..MaxFiles}

\* Array.isArray(files) ? files : [files]
fileArray(files) == IF files.t = "array" THEN files.a ELSE <<files>>

\* the reply of the route: one entry per file, ok[i] tells whether file i
\* passed, and the three counts
UploadRoute(fa, ok, ts) ==
  LET entry(i) ==
        Obj(("asset_id" :> Str(IF ok[i] THEN "asset-" \o ToString(i) ELSE ""))
            @@ ("file_name" :> Get(fa[i], "name"))
            @@ ("success" :> Bool(ok[i]))
            @@ ("error" :> IF ok[i] THEN Undef ELSE Str("File type not supported")))
      passed == SelectSeq([i \in DOMAIN fa |-> i], LAMBDA i : ok[i])
  IN Obj(("success" :> Bool(Len(passed) > 0))
         @@ ("asset_ids" :> Arr([j \in DOMAIN passed |->
                                   Str("asset-" \o ToString(passed[j]))]))
         @@ ("files" :> Arr([i \in DOMAIN fa |-> entry(i)]))
         @@ ("total_files" :> Num(Len(fa)))
         @@ ("successful_uploads" :> Num(Len(passed)))
         @@ ("failed_uploads" :> Num(Len(fa) - Len(passed)))
         @@ ("message" :> Str("Uploaded " \o ToString(Len(passed)) \o " of "
                                \o ToString(Len(fa)) \o " files"))
         @@ ("timestamp" :> Str(ts)))

\* the UploadResponse uploadFiles builds itself
OwnUploadResponse(total, failed, m, e, ts) ==
  Obj(("success" :> Bool(FALSE))
      @@ ("asset_ids" :> Arr(<<>>))
      @@ ("files" :> Arr(<<>>))
      @@ ("total_files" :> Num(total))
      @@ ("successful_uploads" :> Num(0))
      @@ ("failed_uploads" :> Num(failed))
      @@ ("message" :> Str(m))
      @@ ("timestamp" :> Str(ts))
      @@ ("error" :> Str(e)))

\* fileArray.length === 0
NoFiles(ts) == OwnUploadResponse(0, 0, "No files provided", "No files provided", ts)

\* (mutant) the catch block that counts no file as failed
UploadCaughtNone(n, e, ts) ==
  OwnUploadResponse(n, 0, "Network error during upload", e, ts)

\* the catch block of uploadFiles
UploadCaught(n, e, ts) ==
  OwnUploadResponse(n, n, "Network error during upload", e, ts)

\* uploadFiles from the response of fetchWrapper to its return
AfterUpload(res, n, ts) ==
  IF res = NoRes
  THEN UploadCaught(n, "Cannot read properties of undefined (reading 'json')", ts)
  ELSE IF res.body = NotJson THEN UploadCaught(n, "Unexpected token < in JSON", ts)
  ELSE res.body

\* uploadFiles(files) up to its return or its request
Upload(files) ==
  /\ upPc = "idle"
  /\ upFiles' = files
  /\ IF Len(fileArray(files)) = 0
     THEN /\ upPc' = "returned"
          /\ upRet' = NoFiles(ProxyTime)
          /\ upRequests' = upRequests
     ELSE /\ upPc' = "uploading"
          /\ upRet' = upRet
          /\ upRequests' = upRequests + 1
  /\ UNCHANGED notUploadVars

\* the upload request resolves
UploadResolves(tr, ok) ==
  /\ upPc = "uploading"
  /\ upPc' = "returned"
  /\ upRet' = AfterUpload(
                fetchWrapper(Fetch(tr, JsonResponse(
                  UploadRoute(fileArray(upFiles), ok, ProxyTime), 200))),
                Len(fileArray(upFiles)), ProxyTime)
  /\ UNCHANGED <<upFiles, upRequests>>
  /\ UNCHANGED notUploadVars

UploadStep == \E files \in FileArguments : Upload(files)

UploadResolveStep ==
  \E tr \in Transports, ok \in [1..MaxFiles -> BOOLEAN] : UploadResolves(tr, ok)

UploadNext == UploadStep \/ UploadResolveStep

SpecUpload == Init /\ [][UploadNext]_vars

BackoffCap == 3000

\* a poll is sent: the timer of the k-th sleep, k = attempt, has fired
PollSent == pc = "sleeping" /\ pc' = "polling"

\* d is 300 * 1.5^k in whole milliseconds, for a k whose power is below the cap
IsBackoff(d, k) ==
  /\ k < 6
  /\ d * 2^k <= 300 * 3^k
  /\ 300 * 3^k < (d + 1) * 2^k
  /\ d < BackoffCap

\* C14: the delay slept before the k-th poll is min(300 * 1.5^k, 3000) ms;
\* the delays of one loop never decrease, never exceed the cap of 3000 ms and
\* reach it
C14_Backoff ==
  [][PollSent =>
       /\ IsBackoff(delay', attempt) \/ (attempt >= 6 /\ delay' = BackoffCap)
       /\ delay' >= delay
       /\ delay' <= BackoffCap
       /\ delay = BackoffCap => delay' = BackoffCap]_vars
C14_Witness == delay = BackoffCap /\ attempt > 7 /\ pc = "polling"

\* C15: polls are strictly sequential: a poll is sent only when no earlier
\* poll is outstanding and the submit has resolved with a task_id, so two
\* polls for one handle are never outstanding together
C15_PollsSequential ==
  /\ [](outstanding.poll <= 1)
  /\ [][polls' > polls =>
          /\ outstanding.poll = 0
          /\ outstanding.submit = 0
          /\ ~Falsy(task_id)]_vars
C15_Witness == polls > 1 /\ outstanding.poll = 1

(***************************************************************************)
(* Concurrent invocations of callAIAgent.  Every name callAIAgent assigns  *)
(* is a local of the invocation (task_id, user_id, session_id, startTime,  *)
(* attempt); the invocations share the page (its clock, and its unloading  *)
(* when fetchWrapper reloads it) and the backend.                          *)
(***************************************************************************)
MaxPairPolls == 1

\* two invocations running in one page
Invocations == {1, 2}
PairTransports == {"ok", "netfail"}

\* the arguments of the i-th invocation: only the first passes options
PairArgs(i) ==
  [message |-> Str("hi" \o ToString(i)),
   agent_id |-> Str("A" \o ToString(i)),
   options |-> IF i = 1
               THEN Obj(("user_id" :> Str("U1")) @@ ("session_id" :> Str("S1")))
               ELSE Undef]

\* the locals of an invocation that has not been called; own, sent, polled
\* and submitAt record what happened to it (the handle the backend issued to
\* its submit, the handles its polls carried, how many it sent, when its
\* submit resolved) and lastSeen what its last poll was told
IdleCall(i) ==
  [pc |-> "idle", message |-> Undef, agent_id |-> Undef, options |-> Undef,
   task_id |-> Undef, user_id |-> Undef, session_id |-> Undef, startTime |-> 0,
   attempt |-> 0, wake |-> 0, ret |-> Undef, handle |-> Undef,
   own |-> Undef, sent |-> {}, polled |-> 0, submitAt |-> 0, lastSeen |-> "none"]

\* the handle the backend gives its next task
NextHandle == Str("T" \o ToString(Cardinality(DOMAIN tasks) + 1))

\* how the backend may finish the task of a handle
PairResults(h) ==
  IF h = "T1" THEN {Completed(Str("Hello back")), Failed(Str("model overloaded"))}
  ELSE {Completed(Obj(("status" :> Str("error")) @@ ("message" :> Str("agent refused"))))}

PairUpstreamSubmit == {UpThrow, UpHttp(200, JsonTable[Obj("task_id" :> NextHandle)])}

PairUpstreamPoll(h) ==
  {UpThrow}
    \cup (IF h.s \in DOMAIN tasks THEN {UpHttp(200, JsonTable[tasks[h.s]])}
          ELSE {UpHttp(404, JsonTable[Obj("message" :> Str("Task not found"))])})

PairSubmitBody(c) ==
  Serialize(Obj(("message" :> c.message) @@ ("agent_id" :> c.agent_id)
                @@ ("user_id" :> Get(c.options, "user_id"))
                @@ ("session_id" :> Get(c.options, "session_id"))
                @@ ("assets" :> Get(c.options, "assets"))))

\* (mutant) task_id kept in a variable of the module: the last handle issued
PollHandleShared(c) == Str("T" \o ToString(Cardinality(DOMAIN tasks)))

\* the task_id a poll of the invocation carries: its local
PollHandle(c) == c.task_id

\* may fetchWrapper reload the page on this outcome (the user confirms)
Reloadable(o) ==
  IF o.kind = "throw" THEN TRUE ELSE ~o.r.redirected /\ o.r.status >= 500

\* the invocation stops at its next await, returns or throws; a reload of
\* the page ends every invocation running in it
PairSettle(i, c, outcome, reload, t) ==
  IF reload
  THEN [j \in Invocations |-> IF calls[j].pc \in {"idle", "returned", "threw"}
                              THEN calls[j] ELSE [calls[j] EXCEPT !.pc = "gone"]]
  ELSE [calls EXCEPT ![i] =
          [c EXCEPT !.pc = CASE outcome.k = "return" -> "returned"
                             [] outcome.k = "throw" -> "threw"
                             [] OTHER -> "sleeping",
                    !.ret = IF outcome.k = "return" THEN outcome.v ELSE c.ret,
                    !.wake = IF outcome.k = "loop" THEN t + Delay(c.attempt) ELSE 0]]

PairCall(i) ==
  /\ calls # <<>>
  /\ calls[i].pc = "idle"
  /\ calls' = [calls EXCEPT ![i] =
                 [@ EXCEPT !.pc = "submitting",
                           !.message = PairArgs(i).message,
                           !.agent_id = PairArgs(i).agent_id,
                           !.options = PairArgs(i).options]]
  /\ UNCHANGED <<tasks, clock, keySet>>
  /\ UNCHANGED <<callVars, now, submits, polls, outstanding, backendSaw, task,
                 lastPoll, pollRes, onlyProcessing>>
  /\ UNCHANGED <<proxyVars, uploadVars, hookVars, normVars, pageVars>>

PairSubmitResolves(i, tr, up, late, reload) ==
  /\ calls # <<>>
  /\ calls[i].pc = "submitting"
  /\ clock' = clock + late
  /\ \E c \in {calls[i]} :
     \E contacted \in {tr = "ok" /\ ContactsBackend(PairSubmitBody(c), keySet)},
        o \in {Fetch(tr, POST(PairSubmitBody(c), keySet, up, i, i, ProxyTime))} :
     \E res \in {fetchWrapper(o)}, made \in {contacted /\ TaskCreated(up)} :
     \E after \in {AfterSubmit(res)} :
       /\ reload => Reloadable(o)
       /\ tasks' = IF made THEN (NextHandle.s :> Processing) @@ tasks ELSE tasks
       /\ calls' =
            PairSettle(i,
              [c EXCEPT
                 !.own = IF made THEN NextHandle ELSE c.own,
                 !.submitAt = clock + late,
                 !.task_id = IF after.k = "loop" THEN Get(res.body, "task_id") ELSE @,
                 !.user_id = IF after.k = "loop" THEN Get(res.body, "user_id") ELSE @,
                 !.session_id =
                   IF after.k = "loop" THEN Get(res.body, "session_id") ELSE @,
                 !.startTime = IF after.k = "loop" THEN clock + late ELSE @],
              Catch(LoopTest(after, clock + late, clock + late)), reload,
              clock + late)
  /\ UNCHANGED keySet
  /\ UNCHANGED <<callVars, now, submits, polls, outstanding, backendSaw, task,
                 lastPoll, pollRes, onlyProcessing>>
  /\ UNCHANGED <<proxyVars, uploadVars, hookVars, normVars, pageVars>>

\* the backoff timer of invocation i fires, no earlier than it was set for
PairTimerFires(i) ==
  /\ calls # <<>>
  /\ Awaited(calls[i].pc)
  /\ calls[i].polled < MaxPairPolls
  /\ clock' = IF clock < calls[i].wake THEN calls[i].wake ELSE clock
  /\ calls' = [calls EXCEPT ![i] =
                 [@ EXCEPT !.pc = "polling",
                           !.attempt = @ + 1,
                           !.polled = @ + 1,
                           !.wake = 0,
                           !.handle = PollHandle(calls[i]),
                           !.sent = @ \cup {PollHandle(calls[i])}]]
  /\ UNCHANGED <<tasks, keySet>>
  /\ UNCHANGED <<callVars, now, submits, polls, outstanding, backendSaw, task,
                 lastPoll, pollRes, onlyProcessing>>
  /\ UNCHANGED <<proxyVars, uploadVars, hookVars, normVars, pageVars>>

PairPollResolves(i, tr, up, late, reload) ==
  /\ calls # <<>>
  /\ calls[i].pc = "polling"
  /\ clock' = clock + late
  /\ \E c \in {calls[i]} :
     \E body \in {Serialize(Obj("task_id" :> c.handle))} :
     \E contacted \in {tr = "ok" /\ ContactsBackend(body, keySet)},
        o \in {Fetch(tr, POST(body, keySet, up, i, i, ProxyTime))} :
       /\ reload => Reloadable(o)
       /\ calls' =
            PairSettle(i,
              [c EXCEPT !.lastSeen = IF contacted THEN ReportOf(up) ELSE "lost"],
              Catch(LoopTest(AfterPoll(fetchWrapper(o), c.agent_id, c.user_id,
                                       c.session_id),
                             clock + late, c.startTime)),
              reload, clock + late)
  /\ UNCHANGED <<tasks, keySet>>
  /\ UNCHANGED <<callVars, now, submits, polls, outstanding, backendSaw, task,
                 lastPoll, pollRes, onlyProcessing>>
  /\ UNCHANGED <<proxyVars, uploadVars, hookVars, normVars, pageVars>>

PairBackendFinishes(h, t) ==
  /\ h \in DOMAIN tasks
  /\ tasks[h] = Processing
  /\ tasks' = [tasks EXCEPT ![h] = t]
  /\ UNCHANGED <<calls, clock, keySet>>
  /\ UNCHANGED <<callVars, now, submits, polls, outstanding, backendSaw, task,
                 lastPoll, pollRes, onlyProcessing>>
  /\ UNCHANGED <<proxyVars, uploadVars, hookVars, normVars, pageVars>>

PairCallStep == \E i \in Invocations : PairCall(i)

PairSubmitStep ==
  \E i \in Invocations, tr \in PairTransports, late \in Lates, reload \in BOOLEAN :
    /\ calls # <<>>
    /\ calls[i].pc = "submitting"
    /\ \E up \in PairUpstreamSubmit : PairSubmitResolves(i, tr, up, late, reload)

PairTimerStep == \E i \in Invocations : PairTimerFires(i)

PairPollStep ==
  \E i \in Invocations, tr \in PairTransports, late \in Lates, reload \in BOOLEAN :
    /\ calls # <<>>
    /\ calls[i].pc = "polling"
    /\ \E up \in PairUpstreamPoll(calls[i].handle) :
         PairPollResolves(i, tr, up, late, reload)

PairBackendStep ==
  \E h \in DOMAIN tasks : \E t \in PairResults(h) : PairBackendFinishes(h, t)

PairNext ==
  PairCallStep \/ PairSubmitStep \/ PairTimerStep \/ PairPollStep \/ PairBackendStep

PairInit ==
  /\ CallIdle
  /\ keySet \in BOOLEAN
  /\ ProxyIdle
  /\ UploadIdle
  /\ PageIdle
  /\ HookIdle
  /\ NormIdle
  /\ calls = [i \in Invocations |-> IdleCall(i)]
  /\ tasks = <<>>
  /\ clock = 0

SpecPair == PairInit /\ [][PairNext]_vars

\* the user_id and session_id the route gives invocation i
OwnUser(i) ==
  OrElse(Get(PairArgs(i).options, "user_id"), Str("user-" \o generateUUID(i)))
OwnSession(i) ==
  OrElse(Get(PairArgs(i).options, "session_id"),
         Str(StringOf(PairArgs(i).agent_id) \o "-" \o generateUUID(i)))

\* invocation i has returned what a poll said of a completed task
ReturnedCompleted(i) ==
  /\ calls[i].pc = "returned"
  /\ calls[i].lastSeen = "completed"
  /\ Get(calls[i].ret, "status") = Str("completed")

\* C16: under every interleaving of concurrent invocations each one polls
\* only with the task_id its own submit was given, counts its own polls,
\* measures from its own submit, and returns the result of its own task with
\* its own agent_id, user_id and session_id
C16_InvocationsIsolated ==
  calls # <<>> =>
    \A i \in Invocations :
      /\ calls[i].sent \subseteq {calls[i].own}
      /\ calls[i].attempt = calls[i].polled
      /\ calls[i].pc \in {"sleeping", "polling"} =>
           calls[i].startTime = calls[i].submitAt
      /\ calls[i].ret = Timeout => clock - calls[i].submitAt >= POLL_TIMEOUT_MS
      /\ ReturnedCompleted(i) =>
           /\ Get(calls[i].ret, "response")
                = Get(JsonResponse(CompletedBody(tasks[calls[i].own.s], ProxyTime), 200).body,
                      "response")
           /\ Get(calls[i].ret, "agent_id") = PairArgs(i).agent_id
           /\ Get(calls[i].ret, "user_id") = OwnUser(i)
           /\ Get(calls[i].ret, "session_id") = OwnSession(i)
C16_Witness ==
  /\ calls # <<>>
  /\ \A i \in Invocations : ReturnedCompleted(i)
  /\ calls[1].own = Str("T2")
  /\ calls[2].own = Str("T1")

(***************************************************************************)
(* The error classifier and reporter: isInIframe, sendErrorToParent,       *)
(* useAgent.callAgent and callAgentAPI around callAIAgent.                  *)
(***************************************************************************)
MaxHookPolls == 2
MaxSends == 1

Frames == {"top", "framed", "crossOrigin"}

\* (mutant) a check that throws counts as not embedded
isInIframeStrict(f) == f = "framed"

\* isInIframe(): window.self !== window.top, and true when the check throws
\* (crossOrigin)
isInIframe(f) == f # "top"

\* the message sendErrorToParent hands to window.parent.postMessage
ParentMessage(error) ==
  [type |-> "CHILD_APP_ERROR", source |-> "architect-child-app", payload |-> error]

\* the catch block of sendErrorToParent: log and go on
Swallow(outcome) == IF outcome.k = "throw" THEN Return(Undef) ELSE outcome

\* sendErrorToParent(error): the postMessage calls it makes, the messages
\* that reach the parent and how it ends; its catch swallows a postMessage
\* that throws
sendErrorToParent(error, f, postThrows) ==
  IF ~isInIframe(f)
  THEN [posts |-> <<>>, delivered |-> <<>>, end |-> "return"]
  ELSE [posts |-> <<ParentMessage(error)>>,
        delivered |-> IF postThrows THEN <<>> ELSE <<ParentMessage(error)>>,
        end |-> Swallow(IF postThrows THEN Throw("DataCloneError")
                        ELSE Return(Undef)).k]

\* createErrorDetails(type, message, raw_response), at browser time t
createErrorDetails(type, m, raw, t) ==
  Obj(("type" :> Str(type)) @@ ("message" :> m) @@ ("raw_response" :> raw)
      @@ ("endpoint" :> Str("https://agent-prod.studio.lyzr.ai/v3/inference/chat"))
      @@ ("timestamp" :> Str(ToString(t))))

\* reading a property of v throws a TypeError
NoProperties(v) == v \in {Undef, Null}

\* what a call does once callAIAgent has settled: the record it creates, the
\* value it returns, and whether it tells the parent, the modal and onError
Verdict(record, result, send, modal, onError) ==
  [record |-> record, result |-> result, send |-> send, modal |-> modal,
   onError |-> onError]

\* the catch block of callAgent and of callAgentAPI
NetworkError(m, f, modal, onError, t) ==
  LET err == createErrorDetails("network_error", Str(m), Undef, t)
  IN Verdict(err,
             Obj(("success" :> Bool(FALSE))
                 @@ ("response" :> Obj(("status" :> Str("error")) @@ ("result" :> EmptyObj)
                                       @@ ("message" :> Str(m))))
                 @@ ("error" :> err)),
             isInIframe(f), isInIframe(f) /\ modal, onError)

TypeErrorText == "Cannot read properties of undefined"

\* useAgent.callAgent after its await; outcome is how callAIAgent ended, cb
\* whether a globalErrorCallback is registered
callAgentAfter(outcome, opts, f, cb, t) ==
  LET result == outcome.v
      response == Get(result, "response")
      raw == Get(result, "raw_response")
      failed == createErrorDetails("api_error",
                  OrElse(Get(result, "error"), Str("Agent call failed")), raw, t)
      agentError == createErrorDetails("api_error",
                      OrElse(Get(response, "message"),
                             Str("Agent returned error status")), raw, t)
  IN IF outcome.k = "throw"
     THEN NetworkError(outcome.m, f, cb /\ opts.showErrorModal, opts.onError, t)
     ELSE IF Falsy(Get(result, "success"))
     THEN Verdict(failed,
                  Obj(("success" :> Bool(FALSE)) @@ ("response" :> response)
                      @@ ("raw_response" :> raw) @@ ("error" :> failed)),
                  isInIframe(f), isInIframe(f) /\ cb /\ opts.showErrorModal,
                  opts.onError)
     ELSE IF NoProperties(response)
     THEN NetworkError(TypeErrorText, f, cb /\ opts.showErrorModal, opts.onError, t)
     ELSE IF Get(response, "status") = Str("error")
     THEN Verdict(agentError,
                  Obj(("success" :> Bool(TRUE)) @@ ("response" :> response)
                      @@ ("raw_response" :> raw)),
                  isInIframe(f) /\ opts.showErrorModal,
                  isInIframe(f) /\ opts.showErrorModal /\ cb, opts.onError)
     ELSE Verdict(Undef,
                  Obj(("success" :> Bool(TRUE)) @@ ("response" :> response)
                      @@ ("raw_response" :> raw)),
                  FALSE, FALSE, FALSE)

\* callAgentAPI after its await
callAgentAPIAfter(outcome, f, cb, t) ==
  LET result == outcome.v
      response == Get(result, "response")
      raw == Get(result, "raw_response")
      errorDetails ==
        createErrorDetails("api_error",
          OrElse(Get(result, "error"),
                 OrElse(Get(response, "message"), Str("Agent call failed"))), raw, t)
  IN IF outcome.k = "throw" THEN NetworkError(outcome.m, f, cb, FALSE, t)
     ELSE IF ~Falsy(Get(result, "success")) /\ NoProperties(response)
     THEN NetworkError(TypeErrorText, f, cb, FALSE, t)
     ELSE IF Falsy(Get(result, "success")) \/ Get(response, "status") = Str("error")
     THEN IF Falsy(Get(result, "error")) /\ NoProperties(response)
          THEN NetworkError(TypeErrorText, f, cb, FALSE, t)
          ELSE Verdict(errorDetails,
                       Obj(("success" :> Bool(FALSE)) @@ ("response" :> response)
                           @@ ("raw_response" :> raw) @@ ("error" :> errorDetails)),
                       isInIframe(f), isInIframe(f) /\ cb, FALSE)
     ELSE Verdict(Undef,
                  Obj(("success" :> Bool(TRUE)) @@ ("response" :> response)
                      @@ ("raw_response" :> raw)),
                  FALSE, FALSE, FALSE)

\* the call carries out its verdict and returns
Deliver(v, postThrows) ==
  LET sent == sendErrorToParent(v.record, frame, postThrows)
  IN /\ hkRecord' = v.record
     /\ hkResult' = v.result
     /\ hkPc' = "done"
     /\ onErrorCalls' = IF v.onError THEN Append(onErrorCalls, v.record) ELSE onErrorCalls
     /\ modalCalls' = IF v.modal THEN Append(modalCalls, v.record) ELSE modalCalls
     /\ senderCalls' = IF v.send THEN senderCalls + 1 ELSE senderCalls
     /\ postCalls' = IF v.send THEN postCalls + Len(sent.posts) ELSE postCalls
     /\ postFailures' =
          IF v.send THEN postFailures + Len(sent.posts) - Len(sent.delivered)
          ELSE postFailures
     /\ senderThrew' = (senderThrew \/ (v.send /\ sent.end = "throw"))
     /\ parentInbox' = IF v.send THEN parentInbox \o sent.delivered ELSE parentInbox

HookApis == {"callAgent", "callAgentAPI"}
HookOptions == [onError : BOOLEAN, showErrorModal : BOOLEAN]

\* callAIAgent(message, finalAgentId, { user_id: userId, session_id: sessionId })
HookCallOptions == Obj(("user_id" :> Undef) @@ ("session_id" :> Undef))

\* callAgent({ message, agentId }) or callAgentAPI(message, agentId), up to
\* the submit request of callAIAgent; callAgent without an agent id returns
\* at once
HookCall(api, opts, agentId) ==
  /\ hkPc = "idle"
  /\ pc = "idle"
  /\ hkApi' = api
  /\ hkOpts' = opts
  /\ IF api = "callAgent" /\ Falsy(agentId)
     THEN LET err == createErrorDetails("api_error", Str("No agent_id provided"),
                                        Undef, now)
          IN /\ hkPc' = "done"
             /\ hkRecord' = err
             /\ hkResult' =
                  Obj(("success" :> Bool(FALSE))
                      @@ ("response" :> Obj(("status" :> Str("error"))
                                            @@ ("result" :> EmptyObj)
                                            @@ ("message" :> Str("No agent_id provided"))))
                      @@ ("error" :> err))
             /\ UNCHANGED <<callVars, envVars>>
     ELSE /\ hkPc' = "calling"
          /\ Calling(Str("hi"), agentId, HookCallOptions)
          /\ UNCHANGED <<hkRecord, hkResult>>
  /\ UNCHANGED <<onErrorCalls, modalCalls, frame, senderCalls, postCalls,
                 postFailures, senderThrew, parentInbox, netErr, mounted>>
  /\ UNCHANGED notHookVars

\* callAIAgent settled and the call runs to its return
HookSettle(cb, postThrows) ==
  /\ hkPc = "calling"
  /\ pc \in {"returned", "threw"}
  /\ \E outcome \in {IF pc = "threw" THEN Throw("Network request failed")
                     ELSE Return(ret)} :
       Deliver(IF hkApi = "callAgent"
               THEN callAgentAfter(outcome, hkOpts, frame, cb, now)
               ELSE callAgentAPIAfter(outcome, frame, cb, now), postThrows)
  /\ UNCHANGED <<hkApi, hkOpts, frame, netErr, mounted>>
  /\ UNCHANGED <<callVars, envVars>>
  /\ UNCHANGED notHookVars

\* a component hands a record of its own to sendErrorToParent
ReportedRecords ==
  {createErrorDetails("react_error", Str("render failed"), Undef, 0),
   createErrorDetails("unknown", Str(""), Undef, 0)}

DirectSend(error, postThrows) ==
  /\ hkPc = "done"
  /\ senderCalls < MaxSends + (IF hkRecord = Undef THEN 0 ELSE 1)
  /\ \E sent \in {sendErrorToParent(error, frame, postThrows)} :
       /\ senderCalls' = senderCalls + 1
       /\ postCalls' = postCalls + Len(sent.posts)
       /\ postFailures' = postFailures + Len(sent.posts) - Len(sent.delivered)
       /\ senderThrew' = (senderThrew \/ sent.end = "throw")
       /\ parentInbox' = parentInbox \o sent.delivered
  /\ UNCHANGED <<hkPc, hkApi, hkOpts, hkRecord, hkResult, onErrorCalls, modalCalls,
                 frame, netErr, mounted>>
  /\ UNCHANGED <<callVars, envVars>>
  /\ UNCHANGED notHookVars

\* the calling component unmounts while callAIAgent is in its poll loop;
\* neither the hook nor callAIAgent has a cleanup that would hear of it
Unmount ==
  /\ mounted
  /\ hkPc = "calling"
  /\ pc \in {"sleeping", "polling"}
  /\ mounted' = FALSE
  /\ UNCHANGED <<hkPc, hkApi, hkOpts, hkRecord, hkResult, onErrorCalls, modalCalls,
                 frame, senderCalls, postCalls, postFailures, senderThrew,
                 parentInbox, netErr>>
  /\ UNCHANGED <<callVars, envVars>>
  /\ UNCHANGED notHookVars

\* the steps of callAIAgent inside the call; netErr notes a request that
\* ended in a transport exception
HookQuiet ==
  UNCHANGED <<hkPc, hkApi, hkOpts, hkRecord, hkResult, onErrorCalls, modalCalls,
              frame, senderCalls, postCalls, postFailures, senderThrew, parentInbox,
              mounted>>

HookCallStep ==
  \E api \in HookApis, opts \in HookOptions, a \in {Undef, Str("A1")} :
    /\ api = "callAgentAPI" => (a # Undef /\ opts = [onError |-> FALSE, showErrorModal |-> TRUE])
    /\ HookCall(api, opts, a)

HookSubmitStep ==
  /\ hkPc = "calling"
  /\ \E tr \in Transports, up \in UpstreamSubmit, u1 \in Uuids, u2 \in Uuids,
        late \in Lates :
       /\ SubmitResolved(tr, up, u1, u2, late)
       /\ netErr' = (tr = "netfail")
  /\ HookQuiet
  /\ UNCHANGED notHookVars

HookTimerStep ==
  /\ hkPc = "calling"
  /\ polls < MaxHookPolls
  /\ TimerFires

HookPollStep ==
  /\ hkPc = "calling"
  /\ \E tr \in Transports, up \in UpstreamPoll(task), late \in Lates :
       /\ PollResolved(tr, up, late)
       /\ netErr' = (tr = "netfail")
  /\ HookQuiet
  /\ UNCHANGED notHookVars

HookBackendStep == hkPc = "calling" /\ BackendStep

HookSettleStep == \E cb \in BOOLEAN, postThrows \in BOOLEAN : HookSettle(cb, postThrows)

DirectSendStep ==
  \E error \in ReportedRecords, postThrows \in BOOLEAN : DirectSend(error, postThrows)

HookNext ==
  \/ HookCallStep
  \/ HookSubmitStep
  \/ HookTimerStep
  \/ HookPollStep
  \/ HookBackendStep
  \/ HookSettleStep
  \/ DirectSendStep
  \/ Unmount

HookInit ==
  /\ CallIdle
  /\ keySet = TRUE
  /\ ProxyIdle
  /\ UploadIdle
  /\ PageIdle
  /\ PairIdle
  /\ NormIdle
  /\ hkPc = "idle"
  /\ hkApi = "none"
  /\ hkOpts = [onError |-> FALSE, showErrorModal |-> TRUE]
  /\ hkRecord = Undef
  /\ hkResult = Undef
  /\ onErrorCalls = <<>>
  /\ modalCalls = <<>>
  /\ frame \in Frames
  /\ senderCalls = 0
  /\ postCalls = 0
  /\ postFailures = 0
  /\ senderThrew = FALSE
  /\ parentInbox = <<>>
  /\ netErr = FALSE
  /\ mounted = TRUE

SpecHook == HookInit /\ [][HookNext]_vars

\* C17: sendErrorToParent never throws and never retries: embedded (also
\* when the check throws), each call makes exactly one postMessage call, with
\* {type: 'CHILD_APP_ERROR', source: 'architect-child-app', payload: record},
\* and a postMessage that throws is swallowed; not embedded, it posts nothing
C17_PostsOnceNeverThrows ==
  /\ ~senderThrew
  /\ postCalls = IF frame = "top" THEN 0 ELSE senderCalls
  /\ Len(parentInbox) = postCalls - postFailures
  /\ \A k \in DOMAIN parentInbox :
       /\ parentInbox[k].type = "CHILD_APP_ERROR"
       /\ parentInbox[k].source = "architect-child-app"
       /\ parentInbox[k].payload \in ReportedRecords \cup {hkRecord}
C17_Witness ==
  /\ frame = "crossOrigin"
  /\ senderCalls = 2
  /\ postFailures = 1
  /\ Len(parentInbox) = 1

\* C18: when a request of an agent call made through callAgent or
\* callAgentAPI ends in a transport exception, the error record of the call
\* has kind network_error
C18_NetworkErrorKind ==
  (hkPc = "done" /\ netErr /\ hkRecord # Undef) =>
    Get(hkRecord, "type") = Str("network_error")

\* the record reached the caller: in the error field of the result, or
\* through onError
Delivered ==
  \/ Get(hkResult, "error") = hkRecord
  \/ \E k \in DOMAIN onErrorCalls : onErrorCalls[k] = hkRecord

\* C19: when the call succeeded but the normalized response has status
\* error, the call produces an api_error record with the response's message
\* and raw_response and delivers it to the caller; a task that failed with
\* 'model overloaded' (Scenario B) ends in an api_error with that message
C19_AgentErrorReported ==
  /\ (/\ hkPc = "done"
      /\ Get(ret, "success") = Bool(TRUE)
      /\ Get(Get(ret, "response"), "status") = Str("error")) =>
       /\ Get(hkRecord, "type") = Str("api_error")
       /\ ~Falsy(Get(Get(ret, "response"), "message")) =>
            Get(hkRecord, "message") = Get(Get(ret, "response"), "message")
       /\ Get(hkRecord, "raw_response") = Get(ret, "raw_response")
       /\ Delivered
  /\ (hkPc = "done" /\ lastPoll = "failed" /\ task = Failed(Str("model overloaded"))) =>
       /\ Get(hkRecord, "type") = Str("api_error")
       /\ Get(hkRecord, "message") = Str("model overloaded")

\* C20: once the calling component has unmounted, no further poll request
\* is sent
C20_AbandonStopsPolling == [][~mounted => polls' = polls]_vars


(***************************************************************************)
(* The fetch interceptor's response classifier, and SpecDetect.            *)
(***************************************************************************)
LYZR_API_URL == "https://agent-prod.studio.lyzr.ai/v3/inference/chat"
DetectTime == "2024-01-01T00:00:00.000Z"

\* the ErrorDetails record detectResponseIssue builds
IssueDetails(type, m, raw) ==
  Obj(("type" :> Str(type)) @@ ("message" :> m) @@ ("raw_response" :> raw)
      @@ ("endpoint" :> Str(LYZR_API_URL)) @@ ("timestamp" :> Str(DetectTime))
      @@ ("userAgent" :> Str("agent")) @@ ("url" :> Str("page")))

Issue(error) == [hasIssue |-> TRUE, error |-> error]
NoIssue == [hasIssue |-> FALSE, error |-> Null]

\* rawResponse && rawResponse.length > 20
RawThreshold == 20
hasValidRaw(rawResponse) ==
  IF Falsy(rawResponse) THEN FALSE
  ELSE IF rawResponse.t = "string" THEN Len(rawResponse.s) > RawThreshold
  ELSE FALSE

\* Case 1: API-level failure
ApiCase(data) ==
  Issue(IssueDetails("api_error", Get(data, "error"),
                     OrElse(Get(data, "details"), Get(data, "raw_response"))))

\* Case 2: parse failure indicated by the _parse_succeeded flag
ParseFlagCase(data) ==
  Issue(IssueDetails("parse_error",
                     Str("JSON parsing failed but valid data exists in raw_response"),
                     Get(data, "raw_response")))

\* Case 3: the nested response has an error field
NestedCase(data) ==
  Issue(IssueDetails("parse_error", Get(Get(data, "response"), "error"),
                     Get(data, "raw_response")))

\* (mutant) the classifier that looks at the parse cases first
detectResponseIssueParseFirst(data) ==
  IF Get(data, "_parse_succeeded") = Bool(FALSE)
       /\ Get(data, "_has_valid_data") = Bool(TRUE)
  THEN ParseFlagCase(data)
  ELSE IF Get(data, "success") = Bool(FALSE) /\ ~Falsy(Get(data, "error"))
  THEN ApiCase(data)
  ELSE NoIssue

detectResponseIssue(data) ==
  IF Get(data, "success") = Bool(FALSE) /\ ~Falsy(Get(data, "error"))
  THEN ApiCase(data)
  ELSE IF Get(data, "_parse_succeeded") = Bool(FALSE)
            /\ Get(data, "_has_valid_data") = Bool(TRUE)
  THEN ParseFlagCase(data)
  ELSE IF ~Falsy(Get(data, "response")) /\ TypeOf(Get(data, "response")) = "object"
  THEN LET response == Get(data, "response")
       IN IF Get(response, "success") = Bool(FALSE) /\ ~Falsy(Get(response, "error"))
               /\ hasValidRaw(Get(data, "raw_response"))
          THEN NestedCase(data)
          ELSE NoIssue
  ELSE NoIssue

\* the response bodies the classifier is handed: every combination of the
\* fields it reads, each absent or holding one of a few values
ShortText == "12345678901234567890"
LongText == "123456789012345678901"
NestedResponses ==
  {Undef, Null, Str("ok"),
   Obj(("success" :> Bool(FALSE)) @@ ("error" :> Str("bad json"))),
   Obj(("success" :> Bool(FALSE)) @@ ("error" :> Str(""))),
   Obj("success" :> Bool(FALSE)),
   Obj(("success" :> Bool(TRUE)) @@ ("error" :> Str("bad json"))),
   Obj(("status" :> Str("success")) @@ ("result" :> EmptyObj))}
DetectFields ==
  [success : {Undef, Bool(TRUE), Bool(FALSE)},
   error : {Undef, Str(""), Str("boom")},
   details : {Undef, Str("stack")},
   raw_response : {Undef, Str(""), Str(ShortText), Str(LongText)},
   _parse_succeeded : {Undef, Bool(TRUE), Bool(FALSE)},
   _has_valid_data : {Undef, Bool(TRUE), Bool(FALSE)},
   response : NestedResponses]
BodyOf(f) == Obj([k \in {x \in DOMAIN f : f[x] # Undef} |-> f[k]])
DetectInputs == {BodyOf(f) : f \in DetectFields}

DetectInit ==
  /\ CallIdle
  /\ keySet = TRUE
  /\ ProxyIdle
  /\ UploadIdle
  /\ PairIdle
  /\ HookIdle
  /\ NormIdle
  /\ InterceptIdle
  /\ SchedIdle
  /\ BusyIdle
  /\ dIn \in DetectInputs
  /\ dOut = Undef
  /\ dPhase = "in"

\* const { hasIssue, error } = detectResponseIssue(data)
Detect ==
  /\ dPhase = "in"
  /\ dOut' = detectResponseIssue(dIn)
  /\ dPhase' = "done"
  /\ UNCHANGED dIn
  /\ UNCHANGED notDetectVars

DetectNext == Detect

SpecDetect == DetectInit /\ [][DetectNext]_vars

ApiFailure(d) == Get(d, "success") = Bool(FALSE) /\ ~Falsy(Get(d, "error"))
ParseFlagged(d) ==
  Get(d, "_parse_succeeded") = Bool(FALSE) /\ Get(d, "_has_valid_data") = Bool(TRUE)
NestedFailure(d) ==
  /\ Has(Get(d, "response"), "success")
  /\ Get(Get(d, "response"), "success") = Bool(FALSE)
  /\ Get(Get(d, "response"), "error") \notin {Undef, Null, Str("")}
  /\ Get(d, "raw_response").t = "string"
  /\ Len(Get(d, "raw_response").s) >= 21
KindOf(out) == IF out.error = Null THEN "none" ELSE Get(out.error, "type").s

\* C24: detectResponseIssue reports 'parse_error' exactly when the response
\* is no API-level failure and either _parse_succeeded is false with
\* _has_valid_data true, or the nested response has success false with an
\* error while raw_response is longer than 20 characters; an API-level
\* failure is always reported as 'api_error'; any other response yields no
\* error record
C24_ClassifierKinds ==
  dPhase = "done" =>
     /\ KindOf(dOut) = "parse_error" <=>
          (~ApiFailure(dIn) /\ (ParseFlagged(dIn) \/ NestedFailure(dIn)))
     /\ ApiFailure(dIn) => KindOf(dOut) = "api_error"
     /\ (~ApiFailure(dIn) /\ ~ParseFlagged(dIn) /\ ~NestedFailure(dIn)) =>
          dOut = NoIssue
     /\ dOut.hasIssue <=> KindOf(dOut) # "none"

C24_Witness ==
  /\ dPhase = "done"
  /\ ~ApiFailure(dIn) /\ ~ParseFlagged(dIn) /\ NestedFailure(dIn)
  /\ Get(dIn, "success") = Bool(FALSE)
  /\ KindOf(dOut) = "parse_error"
  /\ Get(dOut.error, "raw_response") = Str(LongText)


(***************************************************************************)
(* The agent fetch interceptor, the iframe logger's fetch wrapper, the     *)
(* pending-error slot, and SpecIntercept.  window.fetch holds one of three *)
(* functions: the browser's own (native), interceptedFetch (agent), which  *)
(* calls the agent module's originalFetch, and the logger's wrapper        *)
(* (logger), which calls the logger module's originalFetch as it is at the *)
(* time of the call.                                                       *)
(***************************************************************************)
FetchFunctions == {"native", "agent", "logger"}

\* the function f hands the request on to
Callee(f) ==
  CASE f = "agent" -> agentOriginalFetch
    [] f = "logger" -> loggerOriginalFetch
    [] OTHER -> "none"

\* the functions a call of window.fetch runs through
Onward(S) == S \cup ({Callee(f) : f \in S} \ {"none"})
FetchChain == Onward(Onward(Onward({windowFetch})))

\* the call never reaches the browser's fetch: the wrappers call each other
\* until the stack overflows, and the RangeError comes back as a rejection
Overflows == "native" \notin FetchChain

\* installAgentInterceptor()
installAgentInterceptor ==
  /\ ~interceptorInstalled
  /\ windowFetch' = "agent"
  /\ interceptorInstalled' = TRUE
  /\ UNCHANGED <<agentOriginalFetch, isInitialized, loggerOriginalFetch,
                 pendingError, modalCallback, cbLast, cbClean, latestDetected,
                 fixInbox, embedding>>

\* uninstallAgentInterceptor()
uninstallAgentInterceptor ==
  /\ interceptorInstalled
  /\ windowFetch' = agentOriginalFetch
  /\ interceptorInstalled' = FALSE
  /\ UNCHANGED <<agentOriginalFetch, isInitialized, loggerOriginalFetch,
                 pendingError, modalCallback, cbLast, cbClean, latestDetected,
                 fixInbox, embedding>>

\* initIframeLogger(), with setupFetchInterceptor()
initIframeLogger ==
  /\ ~isInitialized
  /\ loggerOriginalFetch' = windowFetch
  /\ windowFetch' = "logger"
  /\ isInitialized' = TRUE
  /\ UNCHANGED <<agentOriginalFetch, interceptorInstalled, pendingError,
                 modalCallback, cbLast, cbClean, latestDetected, fixInbox,
                 embedding>>

\* restoreConsole()
restoreConsole ==
  /\ windowFetch' = IF loggerOriginalFetch # "none" THEN loggerOriginalFetch
                    ELSE windowFetch
  /\ isInitialized' = FALSE
  /\ UNCHANGED <<agentOriginalFetch, interceptorInstalled, loggerOriginalFetch,
                 pendingError, modalCallback, cbLast, cbClean, latestDetected,
                 fixInbox, embedding>>

\* onInterceptorError(callback)
onInterceptorError ==
  /\ modalCallback' = TRUE
  /\ cbLast' = Null
  /\ cbClean' = (pendingError = Null)
  /\ UNCHANGED <<windowFetch, agentOriginalFetch, interceptorInstalled,
                 isInitialized, loggerOriginalFetch, pendingError,
                 latestDetected, fixInbox, embedding>>

Pending(error, fullResponse) == [error |-> error, fullResponse |-> fullResponse]

\* the record interceptedFetch builds in its catch block
NetworkErrorDetails(m) ==
  Obj(("type" :> Str("network_error")) @@ ("message" :> m)
      @@ ("endpoint" :> Str("/api/agent")) @@ ("timestamp" :> Str(DetectTime))
      @@ ("userAgent" :> Str("agent")) @@ ("url" :> Str("page")))

\* the responses of the agent API the page fetches
InterceptBodies ==
  {Obj(("success" :> Bool(FALSE)) @@ ("error" :> Str("boom"))
       @@ ("details" :> Str("stack"))),
   Obj(("response" :> Obj(("success" :> Bool(FALSE)) @@ ("error" :> Str("bad json"))))
       @@ ("raw_response" :> Str(LongText))),
   Obj(("success" :> Bool(TRUE))
       @@ ("response" :> Obj(("status" :> Str("success")) @@ ("result" :> EmptyObj))))}
FetchOutcomes ==
  {[kind |-> "json", data |-> d] : d \in InterceptBodies}
    \cup {[kind |-> "notjson"], [kind |-> "throw", m |-> Str("Failed to fetch")]}
FetchUrls == {"agent-prod.studio.lyzr.ai", "/api/agent"}

\* what a call that arrives at interceptedFetch detects: the error record
\* and the response it belongs to, or nothing
Detected(url, o) ==
  IF url # "agent-prod.studio.lyzr.ai" THEN Null
  ELSE IF o.kind = "throw" THEN Pending(NetworkErrorDetails(o.m), Null)
  ELSE IF o.kind = "json" /\ detectResponseIssue(o.data).hasIssue
  THEN Pending(detectResponseIssue(o.data).error, o.data)
  ELSE Null

\* what interceptedFetch hands to setPendingError: a network error only when
\* the page is embedded
Stored(url, o, f) ==
  IF Detected(url, o) = Null THEN Null
  ELSE IF o.kind = "throw" /\ ~isInIframe(f) THEN Null
  ELSE Detected(url, o)

\* a fetch of the page through window.fetch, answered with outcome up
pageFetch(url, up) ==
  LET o == IF Overflows
           THEN [kind |-> "throw", m |-> Str("Maximum call stack size exceeded")]
           ELSE up
      found == IF "agent" \in FetchChain THEN Detected(url, o) ELSE Null
      kept == IF "agent" \in FetchChain THEN Stored(url, o, embedding) ELSE Null
  IN /\ pendingError' = IF kept # Null THEN kept ELSE pendingError
     /\ cbLast' = IF kept # Null /\ modalCallback THEN kept ELSE cbLast
     /\ latestDetected' = IF found # Null THEN found ELSE latestDetected
     /\ UNCHANGED <<windowFetch, agentOriginalFetch, interceptorInstalled,
                    isInitialized, loggerOriginalFetch, modalCallback, cbClean,
                    fixInbox, embedding>>

\* clearPendingError()
clearPendingError ==
  /\ pendingError' = Null
  /\ cbLast' = IF modalCallback THEN Null ELSE cbLast
  /\ latestDetected' = Null
  /\ UNCHANGED <<windowFetch, agentOriginalFetch, interceptorInstalled,
                 isInitialized, loggerOriginalFetch, modalCallback, cbClean,
                 fixInbox, embedding>>

\* JSON.stringify(fullResponse).substring(0, 2000)
FixTextMax == 2000
FullResponseText(fullResponse) ==
  IF Len(Stringify(fullResponse)) <= FixTextMax THEN Stringify(fullResponse)
  ELSE "(the first 2000 characters)"

FixRequest(p) ==
  [type |-> "FIX_ERROR_REQUEST", source |-> "architect-child-app",
   error |-> p.error, action |-> "user_requested_fix",
   fullResponse |-> FullResponseText(p.fullResponse)]

\* sendFixRequestToParent(), postMessage throwing or not
sendFixRequestToParent(postThrows) ==
  LET sent == pendingError # Null /\ isInIframe(embedding) /\ ~postThrows
  IN /\ fixInbox' = IF sent THEN FixRequest(pendingError) ELSE fixInbox
     /\ pendingError' = IF sent THEN Null ELSE pendingError
     /\ cbLast' = IF sent /\ modalCallback THEN Null ELSE cbLast
     /\ latestDetected' = IF sent THEN Null ELSE latestDetected
     /\ UNCHANGED <<windowFetch, agentOriginalFetch, interceptorInstalled,
                    isInitialized, loggerOriginalFetch, modalCallback, cbClean,
                    embedding>>

InstallStep == installAgentInterceptor /\ UNCHANGED notInterceptVars
UninstallStep == uninstallAgentInterceptor /\ UNCHANGED notInterceptVars
InitLoggerStep == initIframeLogger /\ UNCHANGED notInterceptVars
RestoreStep == restoreConsole /\ UNCHANGED notInterceptVars
RegisterStep == onInterceptorError /\ UNCHANGED notInterceptVars
PageFetchStep ==
  \E url \in FetchUrls, up \in FetchOutcomes :
     pageFetch(url, up) /\ UNCHANGED notInterceptVars
ClearStep == clearPendingError /\ UNCHANGED notInterceptVars
SendFixStep ==
  \E postThrows \in BOOLEAN :
     sendFixRequestToParent(postThrows) /\ UNCHANGED notInterceptVars

InterceptNext ==
  \/ InstallStep
  \/ UninstallStep
  \/ InitLoggerStep
  \/ RestoreStep
  \/ RegisterStep
  \/ PageFetchStep
  \/ ClearStep
  \/ SendFixStep

\* the modules are evaluated in either order: the agent interceptor first,
\* or the iframe logger first, which initialises itself when it is loaded
InterceptInit ==
  /\ CallIdle
  /\ keySet = TRUE
  /\ ProxyIdle
  /\ UploadIdle
  /\ PairIdle
  /\ HookIdle
  /\ NormIdle
  /\ DetectIdle
  /\ SchedIdle
  /\ BusyIdle
  /\ embedding \in Frames
  /\ interceptorInstalled = FALSE
  /\ \/ /\ agentOriginalFetch = "native"
        /\ windowFetch = "native"
        /\ isInitialized = FALSE
        /\ loggerOriginalFetch = "none"
     \/ /\ agentOriginalFetch = "logger"
        /\ windowFetch = "logger"
        /\ isInitialized = TRUE
        /\ loggerOriginalFetch = "native"
  /\ pendingError = Null
  /\ modalCallback = FALSE
  /\ cbLast = Null
  /\ cbClean = TRUE
  /\ latestDetected = Null
  /\ fixInbox = Null

SpecIntercept == InterceptInit /\ [][InterceptNext]_vars

\* C25: the pending-error slot holds the most recently detected error if no
\* clear or successful fix-send followed it, and null otherwise; and the
\* callback registered before those events was last invoked with that value
C25_SlotLastWriteWins ==
  /\ pendingError = latestDetected
  /\ (modalCallback /\ cbClean) => cbLast = pendingError

\* the same of the errors the interceptor hands to setPendingError
C25_SlotHoldsLastStored ==
  /\ (embedding # "top") => pendingError = latestDetected
  /\ (modalCallback /\ cbClean) => cbLast = pendingError

\* C27: isInterceptorInstalled() is true exactly when window.fetch routes
\* agent-API calls through the intercepting function, and uninstalling the
\* agent interceptor leaves an initialised iframe logger's wrapper in place
C27_FlagMatchesFetch ==
  /\ [](interceptorInstalled <=> "agent" \in FetchChain)
  /\ [][(interceptorInstalled /\ ~interceptorInstalled' /\ isInitialized)
          => "logger" \in FetchChain']_vars


(***************************************************************************)
(* useScheduler.toggleSchedule over pauseSchedule / resumeSchedule, the    *)
(* scheduler route and the scheduler backend, and SpecSched.               *)
(***************************************************************************)
Toggles == {1, 2}

\* the error texts of the scheduler backend, and for each the words of
\* pauseSchedule / resumeSchedule that its lower-case form includes
AlreadyPaused == "Schedule is already paused"
AlreadyInactive == "{\"detail\":\"Schedule is already inactive\"}"
AlreadyActive == "Schedule is already active"
NotFound == "Schedule not found"
Includes ==
  (AlreadyPaused :> {"already", "paused"})
    @@ (AlreadyInactive :> {"already", "inactive"})
    @@ (AlreadyActive :> {"already", "already active"})
    @@ (NotFound :> {})

BackendReply(status, text, data) ==
  [kind |-> "http", status |-> status, text |-> text, data |-> data]
Switched(active) ==
  BackendReply(200, "", Obj(("id" :> Str("S1")) @@ ("is_active" :> Bool(active))))

\* the scheduler backend: its replies to a pause or resume and the state of
\* the schedule after each.  A request for the state the schedule is
\* already in is refused with 400 or answered like any other.
ScheduleBackend(action, active) ==
  LET wanted == (action = "resume")
  IN {[up |-> Switched(wanted), next |-> wanted],
      [up |-> BackendReply(404, NotFound, NotJson), next |-> active],
      [up |-> BackendReply(500, "Internal Server Error", NotJson), next |-> active]}
       \cup IF active # wanted THEN {}
            ELSE {[up |-> BackendReply(400, t, NotJson), next |-> active] :
                    t \in IF wanted THEN {AlreadyActive}
                          ELSE {AlreadyPaused, AlreadyInactive}}

ApiFailed(m) == Obj(("success" :> Bool(FALSE)) @@ ("error" :> Str(m)))

\* the words sought in data.details
DetailsWords(data) ==
  IF Get(data, "details").t = "string" /\ Get(data, "details").s \in DOMAIN Includes
  THEN Includes[Get(data, "details").s]
  ELSE {}

\* what the common part of pauseSchedule and resumeSchedule returns for
\* the response res of fetchWrapper; settled(words): the schedule is taken
\* to be in the requested state already
ScheduleCall(scheduleId, res, settled(_)) ==
  IF Falsy(scheduleId) THEN ApiFailed("scheduleId is required")
  ELSE IF res = NoRes
  THEN ApiFailed("Cannot read properties of undefined (reading 'json')")
  ELSE IF res.body = NotJson THEN ApiFailed("Unexpected token < in JSON")
  ELSE IF Falsy(Get(res.body, "success")) /\ ~Falsy(Get(res.body, "details"))
            /\ settled(DetailsWords(res.body))
  THEN Obj(("success" :> Bool(TRUE)) @@ ("data" :> res.body))
  ELSE res.body

PauseSettled(words) ==
  "already" \in words /\ ("paused" \in words \/ "inactive" \in words)
ResumeSettled(words) == "already active" \in words

pauseSchedule(scheduleId, res) == ScheduleCall(scheduleId, res, PauseSettled)
resumeSchedule(scheduleId, res) == ScheduleCall(scheduleId, res, ResumeSettled)

ToggleBody(action) ==
  Obj(("action" :> Str(action)) @@ ("scheduleId" :> Str("S1")))

InFlight(i) == toggles[i].pc # "idle"

\* toggleSchedule(schedule) up to its request; schedule is the value the
\* page holds at this moment
ToggleStarts(i) ==
  /\ toggles[i].pc = "idle"
  /\ toggles' = [toggles EXCEPT ![i] =
       [pc |-> "sent", is_active |-> schedules, result |-> Undef]]
  /\ schedLoading' = TRUE
  /\ schedError' = Null
  /\ UNCHANGED <<backendActive, schedules, lastToggle>>
  /\ UNCHANGED notSchedVars

\* the request travels: through the route to the backend and back through
\* fetchWrapper (tr = "ok"), or not as far as the route
ToggleRequest(i, tr, reply) ==
  /\ toggles[i].pc = "sent"
  /\ LET action == IF toggles[i].is_active THEN "pause" ELSE "resume"
         res == fetchWrapper(Fetch(tr, SchedulerPOST(ToggleBody(action),
                                                     Str(SecretKey), reply.up)))
         result == IF toggles[i].is_active THEN pauseSchedule(Str("S1"), res)
                   ELSE resumeSchedule(Str("S1"), res)
     IN /\ backendActive' = IF tr = "ok" THEN reply.next ELSE backendActive
        /\ toggles' = [toggles EXCEPT ![i] =
             [pc |-> "answered", is_active |-> @.is_active, result |-> result]]
  /\ UNCHANGED <<schedules, schedLoading, schedError, lastToggle>>
  /\ UNCHANGED notSchedVars

\* setSchedules(prev => ...): { ...s, is_active: !s.is_active }
Toggled(prev, schedule) == ~prev

\* toggleSchedule from the result of pauseSchedule / resumeSchedule on
ToggleResolves(i) ==
  /\ toggles[i].pc = "answered"
  /\ LET result == toggles[i].result
         ok == ~Falsy(Get(result, "success"))
     IN /\ schedError' = IF ok THEN schedError
                         ELSE OrElse(Get(result, "error"),
                                     Str("Failed to toggle schedule"))
        /\ schedules' = IF ok THEN Toggled(schedules, toggles[i].is_active)
                        ELSE schedules
        /\ lastToggle' = IF ok THEN "success" ELSE "failure"
  /\ schedLoading' = FALSE
  /\ toggles' = [toggles EXCEPT ![i] =
       [pc |-> "idle", is_active |-> FALSE, result |-> Undef]]
  /\ UNCHANGED backendActive
  /\ UNCHANGED notSchedVars

ToggleStartStep == \E i \in Toggles : ToggleStarts(i)
ToggleRequestStep ==
  \E i \in Toggles :
     /\ toggles # <<>> /\ toggles[i].pc = "sent"
     /\ \E tr \in Transports,
           reply \in ScheduleBackend(IF toggles[i].is_active THEN "pause"
                                     ELSE "resume", backendActive) :
          ToggleRequest(i, tr, reply)
ToggleResolveStep == \E i \in Toggles : ToggleResolves(i)

SchedNext == ToggleStartStep \/ ToggleRequestStep \/ ToggleResolveStep

\* the list the page holds was fetched some time ago: it may or may not
\* show the schedule as the backend has it now
SchedInit ==
  /\ CallIdle
  /\ keySet = TRUE
  /\ ProxyIdle
  /\ UploadIdle
  /\ PairIdle
  /\ HookIdle
  /\ NormIdle
  /\ DetectIdle
  /\ InterceptIdle
  /\ BusyIdle
  /\ backendActive \in BOOLEAN
  /\ schedules \in BOOLEAN
  /\ schedLoading = FALSE
  /\ schedError = Null
  /\ toggles = [i \in Toggles |-> [pc |-> "idle", is_active |-> FALSE, result |-> Undef]]
  /\ lastToggle = "none"

SpecSched == SchedInit /\ [][SchedNext]_vars

NoToggleInFlight == \A i \in Toggles : toggles[i].pc = "idle"

\* C28: after toggleSchedule resolves with success the local is_active of
\* the schedule equals the backend's active state, for every sequence of
\* toggles, two toggles started from the same schedule value and a pause or
\* resume that reports success for a schedule already in the requested
\* state included
C28_LocalMatchesBackend ==
  (NoToggleInFlight /\ lastToggle = "success") => schedules = backendActive


(***************************************************************************)
(* The in-flight indicators: loading of useAgent, and activeAgentId,       *)
(* searching and digestLoading of the page; SpecBusy.  What the calls      *)
(* report to the parent window is the subject of SpecHook.                 *)
(***************************************************************************)
AgentCallers == {1, 2}
Handlers == {"search", "digest"}
JOB_SEARCH_AGENT_ID == Str("job-search-agent")
DAILY_DIGEST_AGENT_ID == Str("daily-digest-agent")

\* how a callAIAgent call ends, as its callers tell the cases apart
CallEnds == {"success", "agentError", "failure", "throw"}

\* callAgent(callOptions) up to its await; without an agent id it returns
\* at once
CallAgentStarts(i, hasAgentId) ==
  /\ agentCalls[i] = "idle"
  /\ IF hasAgentId
     THEN /\ loading' = TRUE
          /\ agentErr' = "none"
          /\ agentCalls' = [agentCalls EXCEPT ![i] = "inflight"]
     ELSE /\ agentErr' = "api_error"
          /\ UNCHANGED <<loading, agentCalls>>
  /\ UNCHANGED <<activeAgentId, searching, digestLoading, searchView, digestView,
                 pageCalls>>
  /\ UNCHANGED notBusyVars

\* finally { setLoading(false) }
Finally(l) == FALSE

\* callAgent from the end of callAIAgent on
CallAgentEnds(i, end) ==
  /\ agentCalls[i] = "inflight"
  /\ agentErr' = CASE end = "failure" -> "api_error"
                     [] end = "throw" -> "network_error"
                     [] OTHER -> agentErr
  /\ loading' = Finally(loading)
  /\ agentCalls' = [agentCalls EXCEPT ![i] = "idle"]
  /\ UNCHANGED <<activeAgentId, searching, digestLoading, searchView, digestView,
                 pageCalls>>
  /\ UNCHANGED notBusyVars

\* handleSearch() up to its await
HandleSearchStarts ==
  /\ pageCalls["search"] = "idle"
  /\ ~searching
  /\ searching' = TRUE
  /\ searchView' = "empty"
  /\ activeAgentId' = JOB_SEARCH_AGENT_ID
  /\ pageCalls' = [pageCalls EXCEPT !["search"] = "inflight"]
  /\ UNCHANGED <<loading, agentErr, agentCalls, digestLoading, digestView>>
  /\ UNCHANGED notBusyVars

\* handleSearch() from the end of callAIAgent on
HandleSearchEnds(end) ==
  /\ pageCalls["search"] = "inflight"
  /\ searchView' = IF end \in {"success", "agentError"} THEN "results" ELSE "error"
  /\ searching' = FALSE
  /\ activeAgentId' = Null
  /\ pageCalls' = [pageCalls EXCEPT !["search"] = "idle"]
  /\ UNCHANGED <<loading, agentErr, agentCalls, digestLoading, digestView>>
  /\ UNCHANGED notBusyVars

\* handleFetchDigest() up to its await
HandleFetchDigestStarts ==
  /\ pageCalls["digest"] = "idle"
  /\ ~digestLoading
  /\ digestLoading' = TRUE
  /\ digestView' = "empty"
  /\ activeAgentId' = DAILY_DIGEST_AGENT_ID
  /\ pageCalls' = [pageCalls EXCEPT !["digest"] = "inflight"]
  /\ UNCHANGED <<loading, agentErr, agentCalls, searching, searchView>>
  /\ UNCHANGED notBusyVars

\* handleFetchDigest() from the end of callAIAgent on
HandleFetchDigestEnds(end) ==
  /\ pageCalls["digest"] = "inflight"
  /\ digestView' = IF end \in {"success", "agentError"} THEN "results" ELSE "error"
  /\ digestLoading' = FALSE
  /\ activeAgentId' = Null
  /\ pageCalls' = [pageCalls EXCEPT !["digest"] = "idle"]
  /\ UNCHANGED <<loading, agentErr, agentCalls, searching, searchView>>
  /\ UNCHANGED notBusyVars

CallAgentStartStep ==
  \E i \in AgentCallers, hasAgentId \in BOOLEAN : CallAgentStarts(i, hasAgentId)
CallAgentEndStep == \E i \in AgentCallers, end \in CallEnds : CallAgentEnds(i, end)
HandleSearchEndStep == \E end \in CallEnds : HandleSearchEnds(end)
HandleFetchDigestEndStep == \E end \in CallEnds : HandleFetchDigestEnds(end)

BusyNext ==
  \/ CallAgentStartStep
  \/ CallAgentEndStep
  \/ HandleSearchStarts
  \/ HandleSearchEndStep
  \/ HandleFetchDigestStarts
  \/ HandleFetchDigestEndStep

BusyInit ==
  /\ CallIdle
  /\ keySet = TRUE
  /\ ProxyIdle
  /\ UploadIdle
  /\ PairIdle
  /\ HookIdle
  /\ NormIdle
  /\ DetectIdle
  /\ InterceptIdle
  /\ SchedIdle
  /\ loading = FALSE
  /\ agentErr = "none"
  /\ agentCalls = [i \in AgentCallers |-> "idle"]
  /\ activeAgentId = Null
  /\ searching = FALSE
  /\ digestLoading = FALSE
  /\ searchView = "empty"
  /\ digestView = "empty"
  /\ pageCalls = [h \in Handlers |-> "idle"]

SpecBusy == BusyInit /\ [][BusyNext]_vars

\* C29: the in-flight indicator stays set while any call of its call site is
\* in flight: loading is true while a callAgent invocation is in flight, and
\* activeAgentId is non-null while a handleSearch or handleFetchDigest
\* invocation is in flight, under any overlap of calls
C29_IndicatorWhileInFlight ==
  /\ (\E i \in AgentCallers : agentCalls[i] = "inflight") => loading
  /\ (\E h \in Handlers : pageCalls[h] = "inflight") => activeAgentId # Null

\* the parts of it on which the calls of a call site do not overlap
C29_IndicatorOfOneCall ==
  /\ (\A i \in AgentCallers : agentCalls[i] = "inflight") => loading
  /\ (\A h \in Handlers : pageCalls[h] = "inflight") => activeAgentId # Null
  /\ pageCalls["search"] = "inflight" <=> searching
  /\ pageCalls["digest"] = "inflight" <=> digestLoading


(***************************************************************************)
(* useAgent.callAgent against callAgentAPI, in SpecHook.                   *)
(***************************************************************************)
\* what each of the two returns for the way the callAIAgent call of the
\* state ended
HookOutcome == IF pc = "threw" THEN Throw("Network request failed") ELSE Return(ret)
ViaCallAgent == callAgentAfter(HookOutcome, hkOpts, frame, FALSE, now).result
ViaCallAgentAPI == callAgentAPIAfter(HookOutcome, frame, FALSE, now).result

\* C30: callAgent and callAgentAPI agree on every outcome of the underlying
\* callAIAgent call: the same success flag, and both return an error record
\* or both return none, also for success=true with response.status='error'
C30_ApisAgree ==
  (hkPc = "done" /\ pc \in {"returned", "threw"}) =>
     /\ hkResult = IF hkApi = "callAgent" THEN ViaCallAgent ELSE ViaCallAgentAPI
     /\ Get(ViaCallAgent, "success") = Get(ViaCallAgentAPI, "success")
     /\ Has(ViaCallAgent, "error") <=> Has(ViaCallAgentAPI, "error")

\* the same, the calls that completed with response.status = 'error' set
\* aside
C30_ApisAgreeOtherwise ==
  (hkPc = "done" /\ pc \in {"returned", "threw"}
     /\ ~(pc = "returned" /\ ~Falsy(Get(ret, "success"))
            /\ Get(Get(ret, "response"), "status") = Str("error"))) =>
     /\ hkResult = IF hkApi = "callAgent" THEN ViaCallAgent ELSE ViaCallAgentAPI
     /\ Get(ViaCallAgent, "success") = Get(ViaCallAgentAPI, "success")
     /\ Has(ViaCallAgent, "error") <=> Has(ViaCallAgentAPI, "error")

====
